---- MODULE Spec2Model ----
(***************************************************************************)
(* Market-making simulator: ExecutionSimulator (live-order table, delayed  *)
(* event queue, fills, fees), QuoteEngine (one mirror order per side,      *)
(* place / amend / replace / cancel) and RiskManager (pre-trade gates,     *)
(* emergency condition).                                                   *)
(*                                                                         *)
(* Units.  Prices are integers in ticks (TICK = 0.0001 USD is 1; books     *)
(* keep bid + ask even, so the mid price is a whole number of ticks), a    *)
(* price of one dollar is PX.  Quantities are integers in hundredths of a  *)
(* base unit (one unit is LOT).  Money is in tick x hundredth, so one      *)
(* dollar is USD = PX * LOT money units.                                   *)
(* Fee rates are in 1/10000 (0.004 is 40); a fee is rounded down to the    *)
(* money unit.  A time is [d |-> days, u |-> units of 100 microseconds];   *)
(* the two parts are never carried into each other.                        *)
(***************************************************************************)
EXTENDS Integers, Sequences, FiniteSets, TLC

VARIABLES sim, qe, rm, now, log

vars == <<sim, qe, rm, now, log>>

(***************************************************************************)
(* Arithmetic helpers                                                      *)
(***************************************************************************)
Abs(x) == IF x < 0 THEN -x ELSE x
Max(a, b) == IF a >= b THEN a ELSE b
Min(a, b) == IF a <= b THEN a ELSE b

\* floor(n * num / den) for n >= 0 without forming n * num
MulDiv(n, num, den) == (n \div den) * num + ((n % den) * num) \div den

RECURSIVE SumSeq(_, _)
SumSeq(s, i) == IF i > Len(s) THEN 0 ELSE s[i] + SumSeq(s, i + 1)

(***************************************************************************)
(* Time                                                                    *)
(***************************************************************************)
MS == 1000 \div 100         \* 1 millisecond in time units of 100 microseconds
SEC == 1000 * MS
DAY == 86400 * SEC

T(d, u) == [d |-> d, u |-> u]
AddU(t, k) == [t EXCEPT !.u = @ + k]
AddD(t, k) == [t EXCEPT !.d = @ + k]

\* a - b in time units, saturated at two days either way
Diff(a, b) ==
    IF a.d - b.d >= 3 THEN 2 * DAY
    ELSE IF a.d - b.d <= -3 THEN -(2 * DAY)
    ELSE Max(-(2 * DAY), Min(2 * DAY, (a.d - b.d) * DAY + (a.u - b.u)))

Before(a, b) == Diff(a, b) < 0

(***************************************************************************)
(* Program constants                                                       *)
(***************************************************************************)
TICK == 1
LOT == 100
PX == 10000 * TICK
USD == PX * LOT
INITIAL_CASH == 1000 * USD
INITIAL_MAKER_FEE == 40
CANCEL_DELAY_MIN == 150 * MS
CANCEL_DELAY_MAX == 400 * MS
TRADE_DELAY_MIN == 2
TRADE_DELAY_MAX == 8
STALE_TRADE_SEC == 5
FUTURE_TRADE_SEC == 1
VOLUME_WINDOW_DAYS == 30

\* (threshold in whole USD, rate in 1/10000), as the table lists them
fee_tiers == << <<0, 40>>, <<10000, 25>>, <<50000, 15>>, <<100000, 10>>,
                <<1000000, 8>>, <<15000000, 6>>, <<75000000, 3>>,
                <<250000000, 0>>, <<400000000, 0>> >>

None == << >>
Some(x) == << x >>
IsSome(o) == Len(o) > 0
Val(o) == o[1]

Opposite(side) == IF side = "buy" THEN "sell" ELSE "buy"

(***************************************************************************)
(* RiskManager                                                             *)
(***************************************************************************)
MAX_POSITION_SIZE == 100 * LOT
MAX_DAILY_LOSS == (INITIAL_CASH \div 100) * 2
MAX_DRAWDOWN_PPM == 50000
VAR_LIMIT == INITIAL_CASH \div 100
MAX_ORDERS_PER_SECOND == 50
MAX_LATENCY_MS == 100
ORDER_WINDOW_SECONDS == 1
GRACE_MINUTES == 5
\* the largest simulated order-placement latency, in microseconds
PLACEMENT_LATENCY_MAX_US == 1500 + 3500

CRITICAL_CHECKS == {"position_limit", "daily_pnl_limit", "drawdown_limit"}

\* <<quotient, remainder>> of r * k by den for 0 <= r < den, without forming
\* r * k
AddMod(p, r, den) ==
    IF p[2] >= den - r THEN <<p[1] + 1, p[2] - (den - r)>> ELSE <<p[1], p[2] + r>>

RECURSIVE TimesMod(_, _, _)
TimesMod(r, k, den) ==
    IF k = 0 THEN <<0, 0>> ELSE AddMod(TimesMod(r, k - 1, den), r, den)

RECURSIVE RatioDigits(_, _, _)
NextDigit(p, den, k) == p[1] * (10 ^ (k - 1)) + RatioDigits(p[2], den, k - 1)

\* the first k decimals of r / den, 0 <= r < den
RatioDigits(r, den, k) ==
    IF k = 0 THEN 0 ELSE NextDigit(TimesMod(r, 10, den), den, k)

\* num / den to six decimals (rounded down), num >= 0, den > 0
RatioPpm(num, den) == (num \div den) * 1000000 + RatioDigits(num % den, den, 6)

InGrace(r, t) == Diff(t, r.session_start) < GRACE_MINUTES * 60 * SEC

_check_drawdown_limit(r, current_equity, t) ==
    IF r.peak_equity <= 0 THEN TRUE
    ELSE IF InGrace(r, t)
         THEN r.peak_equity - current_equity <= r.peak_equity \div 50
         ELSE r.peak_equity - current_equity <= r.peak_equity \div 20

TypicalMinuteVolume(price) ==
    IF price >= 50000 * PX THEN 10 * LOT
    ELSE IF price >= 1000 * PX THEN 50 * LOT
    ELSE IF price >= 100 * PX THEN 100 * LOT
    ELSE IF price >= 10 * PX THEN 500 * LOT
    ELSE IF price >= 1 * PX THEN 1000 * LOT
    ELSE 2000 * LOT

\* order_value <= typical * 0.3 * price, or order_value <= $0.50
_check_concentration_risk(size, price) ==
    \/ 2 * size * price <= USD
    \/ 10 * size <= 3 * TypicalMinuteVolume(price)

\* |position * price| * 0.01 * 2.33 <= var_limit
_check_var_limit(position, price) ==
    Abs(position * price) <= MulDiv(VAR_LIMIT, 10000, 233)

_check_order_rate_limit(r) ==
    Len(r.order_timestamps) <= r.limits.max_orders_per_second

DailyPnlOk(r, current_equity, t) ==
    LET current_pnl == current_equity - r.peak_equity
    IN  IF InGrace(r, t)
        THEN -current_pnl <= r.peak_equity \div 100
        ELSE current_pnl >= -(MAX_DAILY_LOSS)

RiskChecks(r, side, size, price, current_position, current_equity, latency_us, t) ==
    LET new_position == current_position + (IF side = "buy" THEN size ELSE -size)
    IN  [position_limit       |-> Abs(new_position) <= MAX_POSITION_SIZE,
         daily_pnl_limit      |-> DailyPnlOk(r, current_equity, t),
         drawdown_limit       |-> _check_drawdown_limit(r, current_equity, t),
         concentration_risk   |-> _check_concentration_risk(size, price),
         var_limit            |-> _check_var_limit(new_position, price),
         order_rate_limit     |-> _check_order_rate_limit(r),
         latency_limit        |-> latency_us <= MAX_LATENCY_MS * 1000,
         no_critical_breaches |-> r.risk_breaches = {}]

_update_risk_breaches_sticky(r, checks) ==
    [r EXCEPT !.risk_breaches = @ \cup {c \in CRITICAL_CHECKS : ~checks[c]}]

_update_risk_breaches(r, checks) ==
    [r EXCEPT !.risk_breaches =
        (@ \cup {c \in CRITICAL_CHECKS : ~checks[c]})
           \ {c \in CRITICAL_CHECKS : checks[c]}]

AllPass(checks) == \A c \in DOMAIN checks : checks[c]

\* the pair (can_trade, checks) and the manager after the call
RiskResult(r, checks) ==
    [can_trade |-> AllPass(checks),
     checks    |-> checks,
     rm        |-> _update_risk_breaches(r, checks)]

check_pre_trade_risk(r, side, size, price, current_position, current_equity, latency_us, t) ==
    RiskResult(r, RiskChecks(r, side, size, price, current_position,
                             current_equity, latency_us, t))

update_position_and_pnl(r, new_position, new_equity) ==
    IF new_equity > r.peak_equity
    THEN [r EXCEPT !.daily_pnl = new_equity - r.peak_equity,
                   !.peak_equity = new_equity]
    ELSE [r EXCEPT !.daily_pnl = new_equity - r.peak_equity,
                   !.max_drawdown_observed =
                       Max(@, RatioPpm(r.peak_equity - new_equity, r.peak_equity))]

RECURSIVE KeepAfter(_, _)
KeepAfter(ts, cutoff) ==
    IF ts = << >> THEN << >>
    ELSE IF Before(cutoff, Head(ts))
         THEN <<Head(ts)>> \o KeepAfter(Tail(ts), cutoff)
         ELSE KeepAfter(Tail(ts), cutoff)

record_order_attempt(r, t) ==
    [r EXCEPT !.order_timestamps =
        KeepAfter(Append(@, t), AddU(t, -(ORDER_WINDOW_SECONDS * SEC)))]

emergency_risk_shutdown(r) ==
    \/ r.daily_pnl * 10 < -(MAX_DAILY_LOSS * 8)
    \/ r.max_drawdown_observed * 10 > MAX_DRAWDOWN_PPM * 9
    \/ Cardinality(r.risk_breaches) >= 2

RiskManagerInit(t) ==
    [session_start         |-> t,
     limits                |-> [max_orders_per_second |-> MAX_ORDERS_PER_SECOND],
     daily_pnl             |-> 0,
     peak_equity           |-> INITIAL_CASH,
     max_drawdown_observed |-> 0,
     order_timestamps      |-> << >>,
     risk_breaches         |-> {}]

(***************************************************************************)
(* The world an operation works on: w = [sim, qe, rm, log].  log is the    *)
(* observers' record of what the operation did (not program state):        *)
(*   log.ev         what the current operation dispatched and published    *)
(*   log.fill_info  for each entry of sim.fills: the time it was processed *)
(*                  at, the fee rate then in force, and whether a cancel   *)
(*                  of the order was then pending                          *)
(*   log.cancels    every cancel event ever enqueued: [oid, at]            *)
(*   log.cancel_pub the order ids of the cancel events published so far    *)
(*   log.orig       every order ever submitted: [oid, qty]                 *)
(*   log.mut        every kind of mutation of live_orders and event_queue  *)
(*                  made so far: [target, op, locked]                      *)
(*   log.placed     the times of the accepted placements and amendments    *)
(*   log.attempts   the times of the place_order calls that had a book     *)
(*   log.replaced   for each place_order call that cancelled the open      *)
(*                  order to replace it: [side, at, submitted]             *)
(*   log.arrivals   the execute_time of each trade_update event, in the    *)
(*                  order on_trade enqueued them                           *)
(*   log.fill_src   for each entry of sim.fills: the execute_time of the   *)
(*                  trade_update event that produced it                    *)
(***************************************************************************)
Emit(w, e) == [w EXCEPT !.log.ev = Append(@, e)]

(***************************************************************************)
(* QuoteEngine: reconciliation of the mirror with simulator events         *)
(***************************************************************************)
mark_to_market(s, mid) == s.cash + s.position * mid

OT_RATIO_WINDOW == 300

_track_fill(q, t) ==
    [q EXCEPT !.trades_filled = @ + 1,
              !.recent_fills = KeepAfter(Append(@, t), AddU(t, -(OT_RATIO_WINDOW * SEC)))]

\* variant: a fill never removes the mirror order
HandleFillKeepsOrder(w, data, t) ==
    [w EXCEPT !.qe.open[data.side] =
        Some([Val(@) EXCEPT !.remaining_qty = data.remaining_qty,
                            !.filled_qty = Val(w.qe.open[data.side]).qty
                                           - data.remaining_qty]),
              !.qe.trades_filled = @ + 1]

\* variant: the filled quantity is taken from this fill alone
HandleFillLastFillOnly(w, data, t) ==
    [w EXCEPT !.qe.open[data.side] =
        IF data.remaining_qty <= 0 THEN None
        ELSE Some([Val(@) EXCEPT !.remaining_qty = data.remaining_qty,
                                 !.filled_qty = 2 * data.fill_qty]),
              !.qe.trades_filled = @ + 1]

\* 'fill' event for the order the mirror holds on that side
HandleFill(w, data, t) ==
    LET side == data.side
        o    == Val(w.qe.open[side])
        q1   == IF data.remaining_qty <= 0
                THEN [w.qe EXCEPT !.open[side] = None]
                ELSE [w.qe EXCEPT !.open[side] =
                        Some([o EXCEPT !.remaining_qty = data.remaining_qty,
                                       !.filled_qty = o.qty - data.remaining_qty])]
        q2   == _track_fill(q1, t)
        eq   == mark_to_market(w.sim, (data.price + data.price) \div 2)
    IN  [w EXCEPT !.qe = q2,
                  !.rm = update_position_and_pnl(w.rm, w.sim.position, eq)]

_handle_execution_event(w, event_type, data, t) ==
    LET side == data.side
        held == /\ IsSome(w.qe.open[side])
                /\ Val(w.qe.open[side]).order_id = data.order_id
    IN  IF event_type = "fill"
        THEN IF held THEN HandleFill(w, data, t) ELSE w
        ELSE IF held THEN [w EXCEPT !.qe.open[side] = None] ELSE w

\* publication on the bus: the observers see it, then the engine handles it
Publish(w, event_type, data, t) ==
    LET w1 == Emit(w, [kind |-> "pub", type |-> event_type, oid |-> data.order_id,
                       data |-> data, fills |-> w.sim.fills])
        w2 == IF event_type = "cancel"
              THEN [w1 EXCEPT !.log.cancel_pub = Append(@, data.order_id)]
              ELSE w1
    IN  _handle_execution_event(w2, event_type, data, t)

(***************************************************************************)
(* ExecutionSimulator                                                      *)
(***************************************************************************)
SameLevelSim(a, b) == 2 * Abs(a - b) < TICK

\* integers of the interval [lo_num / den, hi_num / den]: the two ends
DrawEnds(lo_num, hi_num, den) ==
    LET lo == (lo_num + den - 1) \div den
        hi == hi_num \div den
    IN  IF lo >= hi THEN {lo} ELSE {lo, hi}

RECURSIVE LevelSize(_, _)
LevelSize(levels, price) ==
    IF levels = << >> THEN None
    ELSE IF SameLevelSim(Head(levels)[1], price) THEN Some(Head(levels)[2])
    ELSE LevelSize(Tail(levels), price)

\* the values _queue_ahead can draw for an order
_queue_ahead(s, side, price) ==
    IF ~IsSome(s.last_orderbook) THEN DrawEnds(5 * LOT, 50 * LOT, 1)
    ELSE LET book == Val(s.last_orderbook)
             lv   == LevelSize(IF side = "buy" THEN book.bids ELSE book.asks, price)
         IN  IF IsSome(lv) THEN DrawEnds(Val(lv), 3 * Val(lv), 10)
             ELSE DrawEnds(1 * LOT, 10 * LOT, 1)

IndexOf(live, oid) ==
    IF \E i \in 1..Len(live) : live[i].id = oid
    THEN CHOOSE i \in 1..Len(live) : live[i].id = oid
    ELSE 0

RemoveAt(seq, i) == SubSeq(seq, 1, i - 1) \o SubSeq(seq, i + 1, Len(seq))

\* live_orders[id] = order: a new key goes last, a known key keeps its place
PutOrder(live, order) ==
    LET i == IndexOf(live, order.id)
    IN  IF i = 0 THEN Append(live, order) ELSE [live EXCEPT ![i] = order]

\* 'with self.event_queue_lock:' entered and left
Acquire(w) == [w EXCEPT !.sim.event_queue_lock = TRUE]
Release(w) == [w EXCEPT !.sim.event_queue_lock = FALSE]

\* the observer's note of one mutation of a shared structure: was the lock held
Mutation(w, target, op) ==
    [w EXCEPT !.log.mut = @ \cup {[target |-> target, op |-> op,
                                   locked |-> w.sim.event_queue_lock]}]

submit_order(w, order, queue_ahead, t) ==
    LET sim_order == [id |-> order.id, side |-> order.side, qty |-> order.qty,
                      price |-> order.price, queue_ahead |-> queue_ahead, ts |-> t]
    IN  Mutation([w EXCEPT !.sim.live_orders = PutOrder(@, sim_order),
                           !.log.orig = @ \cup {[oid |-> order.id, qty |-> order.qty]}],
                 "live_orders", "submit")

\* variant: trade updates are served before cancels whatever their times
EvBeforeTradesFirst(a, b) ==
    \/ a.event_type = "trade_update" /\ b.event_type = "cancel"
    \/ /\ a.event_type = b.event_type
       /\ Before(a.execute_time, b.execute_time)

\* heap order of DelayedEvent tuples: execute_time, then event_type
EvBefore(a, b) ==
    \/ Before(a.execute_time, b.execute_time)
    \/ /\ Diff(a.execute_time, b.execute_time) = 0
       /\ a.event_type = "cancel" /\ b.event_type = "trade_update"

SameKey(a, b) ==
    Diff(a.execute_time, b.execute_time) = 0 /\ a.event_type = b.event_type

RECURSIVE HeapPush(_, _)
HeapPush(q, e) ==
    IF q = << >> THEN <<e>>
    ELSE IF EvBefore(e, Head(q)) THEN <<e>> \o q
    ELSE <<Head(q)>> \o HeapPush(Tail(q), e)

CancelEvent(oid, at) ==
    [execute_time |-> at, event_type |-> "cancel", order_id |-> oid,
     trade_price |-> 0, trade_qty |-> 0, trade_side |-> "", ts |-> at]

TradeEvent(at, price, qty, side, ts) ==
    [execute_time |-> at, event_type |-> "trade_update", order_id |-> << >>,
     trade_price |-> price, trade_qty |-> qty, trade_side |-> side, ts |-> ts]

\* variant: the cancel event is pushed without taking the lock
cancel_order_sim_unlocked(w, oid, cancel_delay, t) ==
    Mutation([w EXCEPT !.sim.event_queue =
                           HeapPush(@, CancelEvent(oid, AddU(t, cancel_delay))),
                       !.log.cancels = @ \cup {[oid |-> oid, at |-> AddU(t, cancel_delay)]}],
             "event_queue", "push_cancel")

\* variant: the order leaves the table when the cancel is submitted
cancel_order_sim_immediate(w, oid, cancel_delay, t) ==
    [w EXCEPT !.sim.event_queue = HeapPush(@, CancelEvent(oid, AddU(t, cancel_delay))),
              !.sim.live_orders = SelectSeq(@, LAMBDA o : o.id # oid),
              !.log.cancels = @ \cup {[oid |-> oid, at |-> AddU(t, cancel_delay)]}]

cancel_order_sim(w, oid, cancel_delay, t) ==
    LET at == AddU(t, cancel_delay)
    IN  Release(Mutation(
            [Acquire(w) EXCEPT !.sim.event_queue = HeapPush(@, CancelEvent(oid, at)),
                               !.log.cancels = @ \cup {[oid |-> oid, at |-> at]}],
            "event_queue", "push_cancel"))

\* variant: the cancel event is published whether or not the order was found
delayed_cancel_always_publishes(w, oid, t) ==
    Publish([w EXCEPT !.sim.live_orders = SelectSeq(@, LAMBDA o : o.id # oid)],
            "cancel", [order_id |-> oid, side |-> oid[1]], t)

\* the closure a cancel event carries
delayed_cancel(w, oid, t) ==
    LET i == IndexOf(w.sim.live_orders, oid)
    IN  IF i = 0 THEN w
        ELSE Publish(Mutation([w EXCEPT !.sim.live_orders = RemoveAt(@, i)],
                              "live_orders", "cancel"),
                     "cancel", [order_id |-> oid, side |-> w.sim.live_orders[i].side], t)

\* entries older than 30 days leave the front of the deque
RECURSIVE Evict(_, _, _)
Evict(history, total, cutoff) ==
    IF history # << >> /\ Before(Head(history).timestamp, cutoff)
    THEN Evict(Tail(history), total - Head(history).volume_usd, cutoff)
    ELSE [history |-> history, total |-> total]

\* variant: nothing ever leaves the window
_update_rolling_volume_keeps_all(s, t) == s

Evicted(s, r) ==
    [s EXCEPT !.volume_history = r.history, !.total_volume_30d = Max(0, r.total)]

_update_rolling_volume(s, t) ==
    Evicted(s, Evict(s.volume_history, s.total_volume_30d,
                     AddD(t, -VOLUME_WINDOW_DAYS)))

_add_volume(s, volume_usd, t) ==
    _update_rolling_volume(
        [s EXCEPT !.volume_history = Append(@, [timestamp |-> t, volume_usd |-> volume_usd]),
                  !.total_volume_30d = @ + volume_usd], t)

\* the rate of the last tier whose threshold the total reaches
\* `usd` is the number of model money units in a dollar (USD in the state
\* machine); the thresholds of fee_tiers are in dollars.
RECURSIVE TierRate(_, _, _)
TierRate(total, i, usd) ==
    IF i = 0 THEN -1
    ELSE IF total \div usd >= fee_tiers[i][1] THEN fee_tiers[i][2]
    ELSE TierRate(total, i - 1, usd)

SetTier(s, rate) == IF rate < 0 THEN s ELSE [s EXCEPT !.current_maker_fee = rate]

TierOf(s, usd) == SetTier(s, TierRate(s.total_volume_30d, Len(fee_tiers), usd))

_update_fee_tier(s, t, usd) == TierOf(_update_rolling_volume(s, t), usd)

FeeOf(notional, rate) == MulDiv(notional, rate, 10000)

\* The ledger part of _execute_fill with the tier updated before the fee is
\* computed.
FillLedgerTierFirst(s, side, price, fill_qty, t, usd) ==
    LET notional == fill_qty * price
        s1 == _update_fee_tier(_add_volume(s, notional, t), t, usd)
    IN  [s1 EXCEPT
           !.position = IF side = "buy" THEN @ + fill_qty ELSE @ - fill_qty,
           !.cash = (IF side = "buy" THEN @ - notional ELSE @ + notional)
                    - FeeOf(notional, s1.current_maker_fee)]

\* The ledger part of _execute_fill: position, cash, fee, rolling volume, tier.
FillLedger(s, side, price, fill_qty, t, usd) ==
    LET notional == fill_qty * price
        fee      == FeeOf(notional, s.current_maker_fee)
    IN  _update_fee_tier(
            _add_volume(
                [s EXCEPT
                   !.position = IF side = "buy" THEN @ + fill_qty ELSE @ - fill_qty,
                   !.cash = (IF side = "buy" THEN @ - notional ELSE @ + notional) - fee],
                notional, t),
            t, usd)

_execute_fill_unfeed(w, order, fill_qty, ts, t) ==
    LET s        == w.sim
        notional == fill_qty * order.price
        fee      == FeeOf(notional, s.current_maker_fee)
        s1 == [s EXCEPT
                 !.position = IF order.side = "buy" THEN @ + fill_qty ELSE @ - fill_qty,
                 !.cash = IF order.side = "buy" THEN @ - notional ELSE @ + notional]
        s2 == _update_fee_tier(_add_volume(s1, notional, t), t, USD)
        s3 == [s2 EXCEPT !.fills = Append(@, [oid |-> order.id, side |-> order.side,
                                              qty |-> fill_qty, price |-> order.price,
                                              fee |-> fee, ts |-> ts])]
        w1 == [w EXCEPT !.sim = s3,
                        !.log.fill_info = Append(@,
                            [at |-> t, rate |-> s.current_maker_fee,
                             cancel_pending |-> \E c \in w.log.cancels : c.oid = order.id])]
    IN  Publish(w1, "fill", [order_id |-> order.id, side |-> order.side,
                             fill_qty |-> fill_qty,
                             remaining_qty |-> order.qty - fill_qty,
                             price |-> order.price, fee |-> fee], t)

_execute_fill(w, order, fill_qty, ts, t) ==
    LET s        == w.sim
        notional == fill_qty * order.price
        fee      == FeeOf(notional, s.current_maker_fee)
        s2 == FillLedger(s, order.side, order.price, fill_qty, t, USD)
        s3 == [s2 EXCEPT !.fills = Append(@, [oid |-> order.id, side |-> order.side,
                                              qty |-> fill_qty, price |-> order.price,
                                              fee |-> fee, ts |-> ts])]
        w1 == [w EXCEPT !.sim = s3,
                        !.log.fill_info = Append(@,
                            [at |-> t, rate |-> s.current_maker_fee,
                             cancel_pending |-> \E c \in w.log.cancels : c.oid = order.id])]
    IN  Publish(w1, "fill", [order_id |-> order.id, side |-> order.side,
                             fill_qty |-> fill_qty,
                             remaining_qty |-> order.qty - fill_qty,
                             price |-> order.price, fee |-> fee], t)

\* variant: the aggressor side is not looked at
TradeMatchesAnySide(order, trade_price, trade_side) ==
    SameLevelSim(order.price, trade_price)

TradeMatches(order, trade_price, trade_side) ==
    /\ SameLevelSim(order.price, trade_price)
    /\ \/ order.side = "buy" /\ trade_side = "sell"
       \/ order.side = "sell" /\ trade_side = "buy"

VolumeThatReachedUs(trade_qty, old_queue) == Max(0, trade_qty - old_queue)

\* variant: the queue ahead of the order is ignored
FillQtyIgnoringQueue(order_qty, trade_qty, old_queue) ==
    Max(0, Min(order_qty, trade_qty))

FillQty(order_qty, trade_qty, old_queue) ==
    Max(0, Min(order_qty, VolumeThatReachedUs(trade_qty, old_queue)))

\* the record of one pass of the loop that touched an order
TradeRec(w, order, ev) ==
    [kind |-> "trade", oid |-> order.id, side |-> order.side,
     price |-> order.price, trade_qty |-> ev.trade_qty,
     trade_ts |-> ev.ts, exec_at |-> ev.execute_time,
     old_queue |-> order.queue_ahead,
     rem_before |-> order.qty, fill_qty |-> 0,
     pos_before |-> w.sim.position, cash_before |-> w.sim.cash,
     pos_after |-> w.sim.position, cash_after |-> w.sim.cash,
     fee |-> 0,
     cancel_pending |-> \E c \in w.log.cancels : c.oid = order.id,
     remove |-> FALSE]

\* after _execute_fill: the order is marked for removal or keeps its remainder
AfterFillKeepsOrder(w2, i, order, fill_qty, rec) ==
    [w |-> Emit([w2 EXCEPT !.sim.live_orders[i] =
                               [order EXCEPT !.qty = order.qty - fill_qty],
                           !.log.fill_src = Append(@, rec.exec_at)],
                [rec EXCEPT !.fill_qty = w2.sim.fills[Len(w2.sim.fills)].qty,
                            !.fee = w2.sim.fills[Len(w2.sim.fills)].fee,
                            !.pos_after = w2.sim.position,
                            !.cash_after = w2.sim.cash]),
     remove |-> FALSE]

AfterFill(w2, i, order, fill_qty, rec) ==
    [w |-> Emit(IF fill_qty >= order.qty
                THEN [w2 EXCEPT !.log.fill_src = Append(@, rec.exec_at)]
                ELSE [w2 EXCEPT !.sim.live_orders[i] =
                                    [order EXCEPT !.qty = order.qty - fill_qty,
                                                  !.queue_ahead = 0],
                                !.log.fill_src = Append(@, rec.exec_at)],
                [rec EXCEPT !.fill_qty = w2.sim.fills[Len(w2.sim.fills)].qty,
                            !.fee = w2.sim.fills[Len(w2.sim.fills)].fee,
                            !.pos_after = w2.sim.position,
                            !.cash_after = w2.sim.cash,
                            !.remove = fill_qty >= order.qty]),
     remove |-> fill_qty >= order.qty]

\* one pass of the loop over live_orders, for the order at place i
TradeOnOrder(w, i, order, ev, t) ==
    IF ~TradeMatches(order, ev.trade_price, ev.trade_side)
    THEN [w |-> w, remove |-> FALSE]
    ELSE IF /\ Max(0, order.queue_ahead - ev.trade_qty) <= 0
            /\ FillQty(order.qty, ev.trade_qty, order.queue_ahead) > 0
    THEN AfterFill(
            _execute_fill(
                Mutation([w EXCEPT !.sim.live_orders[i].queue_ahead =
                                       Max(0, order.queue_ahead - ev.trade_qty)],
                         "live_orders", "trade"),
                order, FillQty(order.qty, ev.trade_qty, order.queue_ahead),
                ev.ts, t),
            i, order, FillQty(order.qty, ev.trade_qty, order.queue_ahead),
            TradeRec(w, order, ev))
    ELSE [w |-> Emit(Mutation([w EXCEPT !.sim.live_orders[i].queue_ahead =
                                            Max(0, order.queue_ahead - ev.trade_qty)],
                              "live_orders", "trade"),
                     TradeRec(w, order, ev)),
          remove |-> FALSE]

RECURSIVE TradeLoop(_, _, _, _, _)
TradeStep(r, ids, to_remove, ev, t) ==
    TradeLoop(r.w, Tail(ids),
              IF r.remove THEN to_remove \cup {Head(ids)} ELSE to_remove, ev, t)

TradeLoop(w, ids, to_remove, ev, t) ==
    IF ids = << >> THEN [w |-> w, to_remove |-> to_remove]
    ELSE TradeStep(TradeOnOrder(w, IndexOf(w.sim.live_orders, Head(ids)),
                                w.sim.live_orders[IndexOf(w.sim.live_orders, Head(ids))],
                                ev, t),
                   ids, to_remove, ev, t)

RECURSIVE DropIds(_, _)
DropIds(live, ids) ==
    IF live = << >> THEN << >>
    ELSE IF Head(live).id \in ids THEN DropIds(Tail(live), ids)
    ELSE <<Head(live)>> \o DropIds(Tail(live), ids)

RemoveFilled(r) ==
    IF r.to_remove = {} THEN r.w
    ELSE Mutation([r.w EXCEPT !.sim.live_orders = DropIds(@, r.to_remove)],
                  "live_orders", "remove")

_process_trade_update(w, ev, t) ==
    RemoveFilled(
        TradeLoop(w, [i \in 1..Len(w.sim.live_orders) |-> w.sim.live_orders[i].id],
                  {}, ev, t))

Handle(w, ev, t) ==
    IF ev.event_type = "trade_update" THEN _process_trade_update(w, ev, t)
    ELSE IF ev.event_type = "cancel" THEN delayed_cancel(w, ev.order_id, t)
    ELSE w

\* what the observers see of one dispatched event: the simulator before and after
Snapshot(w) ==
    [live |-> w.sim.live_orders, cash |-> w.sim.cash, position |-> w.sim.position,
     fills |-> w.sim.fills, cancel_pub |-> Len(w.log.cancel_pub), open |-> w.qe.open]

Dispatched(w, w1, ev) ==
    Emit(w1, [kind |-> "dispatch", ev |-> ev, locked |-> w.sim.event_queue_lock,
              before |-> Snapshot(w), after |-> Snapshot(w1)])

Dispatch(w, ev, t) == Dispatched(w, Handle(w, ev, t), ev)

RECURSIVE DispatchAll(_, _, _)
DispatchAll(w, events, t) ==
    IF events = << >> THEN w
    ELSE DispatchAll(Dispatch(w, Head(events), t), Tail(events), t)

DueOrNot(q, t) == q

DueNever(q, t) == << >>

Due(q, t) == SelectSeq(q, LAMBDA e : ~Before(t, e.execute_time))

NotDue(q, t) == SelectSeq(q, LAMBDA e : Before(t, e.execute_time))

Drained(w, w1, events_to_process, t) ==
    Emit(w1, [kind |-> "drain", at |-> t, popped |-> events_to_process,
              queue_before |-> w.sim.event_queue,
              queue_after |-> w1.sim.event_queue])

\* The part of on_orderbook_update that runs with event_queue_lock held.
PopDue(w, best_bid, best_ask, t, events_to_process) ==
    Drained(w,
            IF events_to_process = << >>
            THEN [w EXCEPT !.sim.last_top = <<best_bid, best_ask>>]
            ELSE Release(Mutation(
                     [Acquire(w) EXCEPT !.sim.last_top = <<best_bid, best_ask>>,
                                        !.sim.event_queue = NotDue(@, t)],
                     "event_queue", "pop")),
            events_to_process, t)

on_orderbook_update(w, best_bid, best_ask, t) ==
    DispatchAll(PopDue(w, best_bid, best_ask, t, Due(w.sim.event_queue, t)),
                Due(w.sim.event_queue, t), t)

update_orderbook(w, book) == [w EXCEPT !.sim.last_orderbook = Some(book)]

\* variant: no timestamp check
TradeAcceptedAlways(ts, t) == TRUE

\* the event on_trade enqueues, or nothing for a stale or future-dated trade
TradeAccepted(ts, t) ==
    /\ ~(Diff(t, ts) > STALE_TRADE_SEC * SEC)
    /\ ~(Diff(t, ts) < -(FUTURE_TRADE_SEC * SEC))

\* what the observers see of one on_trade call
OnTradeRec(w, w1, ts, t) ==
    Emit(w1, [kind |-> "on_trade", ts |-> ts, at |-> t,
              queue_before |-> w.sim.event_queue,
              queue_after |-> w1.sim.event_queue,
              before |-> Snapshot(w), after |-> Snapshot(w1)])

on_trade(w, trade_price, trade_qty, trade_side, ts, processing_delay, t) ==
    IF ~TradeAccepted(ts, t) THEN OnTradeRec(w, w, ts, t)
    ELSE OnTradeRec(
            w,
            Release(Mutation(
                [Acquire(w) EXCEPT
                    !.sim.event_queue =
                        HeapPush(@, TradeEvent(AddU(t, processing_delay), trade_price,
                                               trade_qty, trade_side, ts)),
                    !.log.arrivals = Append(@, AddU(t, processing_delay))],
                "event_queue", "push_trade")),
            ts, t)

ExecutionSimulatorInit ==
    [live_orders       |-> << >>,
     cash              |-> INITIAL_CASH,
     position          |-> 0,
     fills             |-> << >>,
     last_top          |-> <<0, 0>>,
     last_orderbook    |-> None,
     volume_history    |-> << >>,
     total_volume_30d  |-> 0,
     current_maker_fee |-> INITIAL_MAKER_FEE,
     event_queue       |-> << >>,
     event_queue_lock  |-> FALSE]

(***************************************************************************)
(* QuoteEngine: orders                                                     *)
(* A book is [bids, asks], each a sequence of <<price, volume>> with the   *)
(* best level first.  The mirror order keeps the fields the engine reads   *)
(* back; its queue estimate only decides acceptance and is not stored.     *)
(***************************************************************************)
BASE_MAX_TICKS_AWAY == 15
ORDER_TTL_SEC == 120
REPLACE_INTERVAL_SEC == 2
AMEND_MAX_TICKS == 5
MIN_ORDER_VALUE == 1 * USD
WHALE_QUEUE == 1000

\* _same_price_level(a, b, tick): abs(a - b) < tick / 2
SamePriceLevelAt(a, b, tick) == 2 * Abs(a - b) < tick

_same_price_level(a, b) == SamePriceLevelAt(a, b, TICK)

BookOk(ob) == IsSome(ob) /\ Val(ob).bids # << >> /\ Val(ob).asks # << >>

BestBid(book) == book.bids[1][1]
BestAsk(book) == book.asks[1][1]

Order(side, price, size, t) ==
    [order_id |-> <<side, price, t>>, side |-> side, price |-> price, qty |-> size,
     filled_qty |-> 0, remaining_qty |-> size, entry_time |-> t]

_can_amend_order(order, target_price) ==
    Abs(target_price - order.price) <= AMEND_MAX_TICKS * TICK

_track_order_sent(w, order_type, t) ==
    [w EXCEPT !.qe.orders_sent = @ + 1,
              !.qe.recent_orders =
                  SelectSeq(Append(@, [ts |-> t, order_type |-> order_type]),
                            LAMBDA e : Before(AddU(t, -(OT_RATIO_WINDOW * SEC)), e.ts))]

_amend_order_fresh(w, side, new_price, t) ==
    _track_order_sent(
        [w EXCEPT !.qe.open[side] = Some([Val(@) EXCEPT !.price = new_price,
                                                        !.entry_time = t])],
        "amend", t)

_amend_order(w, side, new_price, t) ==
    _track_order_sent(
        [w EXCEPT !.qe.open[side] = Some([Val(@) EXCEPT !.price = new_price])],
        "amend", t)

_should_replace_order_always(q, side, target_price, t) == TRUE

_should_replace_order(q, side, target_price, t) ==
    IF ~IsSome(q.open[side]) THEN TRUE
    ELSE LET current_order == Val(q.open[side])
             diff == Abs(target_price - current_order.price)
             age  == Diff(t, current_order.entry_time)
         IN  IF /\ IsSome(q.last_replace_time[side])
                /\ Diff(t, Val(q.last_replace_time[side])) < REPLACE_INTERVAL_SEC * SEC
             THEN FALSE
             ELSE IF ~_same_price_level(target_price, current_order.price)
             THEN IF age < 10 * SEC THEN diff >= 15 * TICK
                  ELSE IF age < 30 * SEC THEN diff >= 10 * TICK
                  ELSE diff >= 5 * TICK
             ELSE FALSE

\* round(x / TICK) for x >= 0, halves to the even neighbour
RoundTicks(x) ==
    LET f == x \div TICK
        r == x % TICK
    IN  IF 2 * r > TICK THEN f + 1
        ELSE IF 2 * r < TICK THEN f
        ELSE IF f % 2 = 0 THEN f ELSE f + 1

\* the engine's queue estimates for a new order, in thousandths of a
\* hundredth;
\* None where the code returns None
_calculate_queue_position(side, price, book) ==
    LET levels == IF side = "buy" THEN book.bids ELSE book.asks
        lv     == LevelSize(levels, price)
        best   == levels[1][1]
        behind == IF side = "buy" THEN best - price ELSE price - best
    IN  IF book.bids = << >> \/ book.asks = << >> THEN {None}
        ELSE IF IsSome(lv)
        THEN {Some(Max(500 * LOT, Val(lv) * 150)),
              Some(Max(500 * LOT, Val(lv) * 250))}
        ELSE IF behind >= 0 /\ behind <= BASE_MAX_TICKS_AWAY * TICK
        THEN IF RoundTicks(behind) = 0
             THEN {Some(Max(1000 * LOT, levels[1][2] * 100)),
                   Some(Max(1000 * LOT, levels[1][2] * 200))}
             ELSE IF RoundTicks(behind) = 1 THEN {Some(500 * LOT), Some(2000 * LOT)}
             ELSE {Some(100 * LOT), Some(1000 * LOT)}
        ELSE {None}

\* variant: the mirror is cleared and the simulator is not told
cancel_order_mirror_only(w, side, manual_cancel, cancel_delay, t) ==
    [w EXCEPT !.qe.last_cancel_time = Some(t), !.qe.open[side] = None]

cancel_order(w, side, manual_cancel, cancel_delay, t) ==
    LET w1 == [w EXCEPT !.qe.last_cancel_time = Some(t),
                        !.qe.last_manual_cancel_time =
                            IF manual_cancel THEN Some(t) ELSE @]
    IN  IF IsSome(w.qe.open[side])
        THEN [cancel_order_sim(w1, Val(w.qe.open[side]).order_id, cancel_delay, t)
                EXCEPT !.qe.open[side] = None]
        ELSE w1

cancel_all_orders(w, manual_cancel, delays, t) ==
    cancel_order(cancel_order(w, "buy", manual_cancel, delays[1], t),
                 "sell", manual_cancel, delays[2], t)

_get_adaptive_max_ticks(q, book) ==
    IF ~IsSome(q.last_orderbook) THEN BASE_MAX_TICKS_AWAY
    ELSE LET old   == Val(q.last_orderbook)
             move2 == Abs((BestBid(book) + BestAsk(book))
                          - (BestBid(old) + BestAsk(old)))
         IN  IF move2 > 2 * 5 * TICK THEN BASE_MAX_TICKS_AWAY * 2
             ELSE IF move2 > 2 * 2 * TICK THEN (BASE_MAX_TICKS_AWAY * 3) \div 2
             ELSE BASE_MAX_TICKS_AWAY

\* "ttl", "crossed", "too_far", or "" where the order stays
CancelReason(q, order, book, t) ==
    LET adaptive == _get_adaptive_max_ticks(q, book)
    IN  IF Diff(t, order.entry_time) > ORDER_TTL_SEC * SEC THEN "ttl"
        ELSE IF book.bids = << >> \/ book.asks = << >> THEN ""
        ELSE IF order.side = "buy"
        THEN IF order.price > BestBid(book) THEN "crossed"
             ELSE IF BestBid(book) - order.price > adaptive * TICK THEN "too_far"
             ELSE ""
        ELSE IF order.price < BestAsk(book) THEN "crossed"
             ELSE IF order.price - BestAsk(book) > adaptive * TICK THEN "too_far"
             ELSE ""

_update_single_order(w, side, book, cancel_delay, t) ==
    IF ~IsSome(w.qe.open[side]) THEN w
    ELSE LET reason == CancelReason(w.qe, Val(w.qe.open[side]), book, t)
         IN  IF reason = "" THEN w
             ELSE Emit(cancel_order(w, side, FALSE, cancel_delay, t),
                       [kind |-> "auto_cancel", side |-> side, reason |-> reason,
                        oid |-> Val(w.qe.open[side]).order_id])

update_order_with_orderbook(w, book, delays, t) ==
    LET w1 == _update_single_order(w, "buy", book, delays[1], t)
        w2 == _update_single_order(w1, "sell", book, delays[2], t)
    IN  [w2 EXCEPT !.qe.last_orderbook = Some(book)]

get_position(w) == w.sim.position

\* the cancel events waiting in the event queue
CancelEvents(q) == {q[i] : i \in {j \in DOMAIN q : q[j].event_type = "cancel"}}

PlaceRec(w, side, price, size, ok, how) ==
    [kind |-> "place", side |-> side, price |-> price, size |-> size,
     ok |-> ok, how |-> how,
     emergency |-> emergency_risk_shutdown(w.rm),
     old |-> w.qe.open[side], before |-> Snapshot(w),
     orders_sent |-> w.qe.orders_sent,
     cancels_before |-> CancelEvents(w.sim.event_queue),
     current_position |-> w.qe.position]

\* the tail of place_order, once risk and position checks have passed
PlaceNew(w0, w, side, price, size, book, engine_queue, sim_queue, cancel_delay, t) ==
    LET w1 == IF IsSome(w.qe.open[side])
              THEN cancel_order(w, side, FALSE, cancel_delay, t)
              ELSE w
        w2 == [w1 EXCEPT !.qe.last_replace_time[side] = Some(t)]
        new_order == Order(side, price, size, t)
        w3 == [w2 EXCEPT !.qe.open[side] = Some(new_order)]
        w4 == submit_order(w3, [id |-> new_order.order_id, side |-> side,
                                qty |-> size, price |-> price], sim_queue, t)
    IN  IF ~IsSome(engine_queue)
        THEN Emit(w2, PlaceRec(w0, side, price, size, FALSE, "no_queue"))
        ELSE IF \/ side = "buy" /\ price >= BestAsk(book)
                \/ side = "sell" /\ price <= BestBid(book)
        THEN Emit(w2, PlaceRec(w0, side, price, size, FALSE, "cross"))
        ELSE IF Val(engine_queue) > WHALE_QUEUE * 1000 * LOT
        THEN Emit(w2, PlaceRec(w0, side, price, size, FALSE, "whale"))
        ELSE Emit(_track_order_sent(w4, IF side = "buy" THEN "new_bid" ELSE "new_ask", t),
                  PlaceRec(w0, side, price, size, TRUE, "new"))

\* variant: no check of the position the order would lead to
BeyondPositionNever(w, side, size) == FALSE

\* the position the simulator reports plus or minus the order is beyond the limit
BeyondPosition(w, side, size) ==
    \/ side = "buy" /\ get_position(w) + size > MAX_POSITION_SIZE
    \/ side = "sell" /\ get_position(w) - size < -(MAX_POSITION_SIZE)

\* place_order from the pre-trade risk check on; risk is the check's result
PlaceChecked(w, risk, side, price, size, book, engine_queue, sim_queue, cancel_delay, t) ==
    IF ~risk.can_trade
    THEN Emit([w EXCEPT !.rm = risk.rm], PlaceRec(w, side, price, size, FALSE, "risk"))
    ELSE IF BeyondPosition(w, side, size)
    THEN Emit([w EXCEPT !.rm = risk.rm],
              PlaceRec(w, side, price, size, FALSE, "position"))
    ELSE IF IsSome(w.qe.open[side]) /\ _can_amend_order(Val(w.qe.open[side]), price)
    THEN Emit(_amend_order([w EXCEPT !.rm = risk.rm], side, price, t),
              PlaceRec(w, side, price, size, TRUE, "amend"))
    ELSE IF ~_should_replace_order(w.qe, side, price, t)
    THEN Emit([w EXCEPT !.rm = risk.rm],
              PlaceRec(w, side, price, size, FALSE, "no_replace"))
    ELSE PlaceNew(w, [w EXCEPT !.rm = risk.rm], side, price, size, book,
                  engine_queue, sim_queue, cancel_delay, t)

place_order(w, side, price, size, current_orderbook, engine_queue, sim_queue, cancel_delay, t) ==
    IF ~BookOk(current_orderbook)
    THEN Emit(w, PlaceRec(w, side, price, size, FALSE, "no_book"))
    ELSE IF size * price < MIN_ORDER_VALUE
    THEN Emit([w EXCEPT !.rm = record_order_attempt(@, t)],
              PlaceRec(w, side, price, size, FALSE, "min_value"))
    ELSE IF size * 10 < LOT
    THEN Emit([w EXCEPT !.rm = record_order_attempt(@, t)],
              PlaceRec(w, side, price, size, FALSE, "min_size"))
    ELSE PlaceChecked(
            w,
            check_pre_trade_risk(
                record_order_attempt(w.rm, t), side, size, price, w.qe.position,
                mark_to_market(w.sim, (BestBid(Val(current_orderbook))
                                       + BestAsk(Val(current_orderbook))) \div 2),
                PLACEMENT_LATENCY_MAX_US, t),
            side, price, size, Val(current_orderbook), engine_queue, sim_queue,
            cancel_delay, t)

Accepted(w) ==
    \E i \in 1..Len(w.log.ev) : w.log.ev[i].kind = "place" /\ w.log.ev[i].ok

\* the ratio as a fraction <<orders, fills>>; <<1, 0>> stands for float('inf')
get_order_to_trade_ratio(q, window_only) ==
    LET orders == IF window_only THEN Len(q.recent_orders) ELSE q.orders_sent
        fills  == IF window_only THEN Len(q.recent_fills) ELSE q.trades_filled
    IN  IF fills = 0 THEN (IF orders > 0 THEN <<1, 0>> ELSE <<0, 1>>)
        ELSE <<orders, fills>>

QuoteEngineInit ==
    [open                    |-> [side \in {"buy", "sell"} |-> None],
     last_orderbook          |-> None,
     last_replace_time       |-> [side \in {"buy", "sell"} |-> None],
     last_cancel_time        |-> None,
     last_manual_cancel_time |-> None,
     orders_sent             |-> 0,
     trades_filled           |-> 0,
     recent_orders           |-> << >>,
     recent_fills            |-> << >>,
     total_fees_paid         |-> 0,
     trades_won              |-> 0,
     trades_total            |-> 0,
     position                |-> 0]

LogInit ==
    [ev |-> << >>, fill_info |-> << >>, cancels |-> {}, cancel_pub |-> << >>,
     orig |-> {}, mut |-> {}, placed |-> << >>, attempts |-> << >>, arrivals |-> << >>, fill_src |-> << >>,
     replaced |-> << >>, n_place |-> 0, n_trades |-> 0, n_ticks |-> 0]

(***************************************************************************)
(* The running system: main.py wires one simulator, one engine and one     *)
(* risk manager; the streams and the callers of the engine drive them.     *)
(***************************************************************************)
MaxTicks == 3
MaxTrades == 1
MaxPlace == 2

SIDES == {"buy", "sell"}

Level(price, vol) == <<price, vol>>

BookAt(bid, ask) ==
    [bids |-> <<Level(bid, 5), Level(bid - TICK, 40)>>,
     asks |-> <<Level(ask, 5), Level(ask + TICK, 40)>>]

BaseBid == 2499 * TICK
BaseAsk == 2501 * TICK
Shift == 20 * TICK

Books == {BookAt(BaseBid, BaseAsk)}

PlaceInputs ==
    {<<"buy", BaseBid, 10 * LOT>>, <<"buy", BaseBid - TICK, 10 * LOT>>,
     <<"sell", BaseAsk, 10 * LOT>>}

TradeInputs ==
    {<<BaseBid, 5, "sell">>, <<BaseBid, 20 * LOT, "sell">>,
     <<BaseAsk, 20 * LOT, "buy">>}

\* the instants the clock is read at: each tick moves to the next one
\* each step is <<days, units>>; the last step repeats
TickSchedule == << <<0, TRADE_DELAY_MAX>>, <<0, CANCEL_DELAY_MAX>>, <<0, TRADE_DELAY_MAX>> >>

\* one draw of the cancel latency per side, so that no two cancel events tie
CancelDelayFor(side) == IF side = "buy" THEN CANCEL_DELAY_MIN ELSE CANCEL_DELAY_MAX
TradeStampOffsets == {0, SEC \div 2}

TradeDelays == {TRADE_DELAY_MAX}

World == [sim |-> sim, qe |-> qe, rm |-> rm, log |-> [log EXCEPT !.ev = << >>]]

\* no two queued events compare equal on (execute_time, event_type)
KeysDistinct(q) ==
    \A i, j \in 1..Len(q) : i < j => ~SameKey(q[i], q[j])

\* the observer's note of one place_order call
Attempted(w) ==
    \E i \in 1..Len(w.log.ev) : w.log.ev[i].kind = "place" /\ w.log.ev[i].how # "no_book"

NotePlace(w, t) ==
    [w EXCEPT !.log.n_place = @ + 1,
              !.log.placed = IF Accepted(w) THEN Append(@, t) ELSE @,
              !.log.attempts = IF Attempted(w) THEN Append(@, t) ELSE @]

Apply(w) ==
    /\ KeysDistinct(w.sim.event_queue)
    /\ sim' = w.sim
    /\ qe' = w.qe
    /\ rm' = w.rm
    /\ log' = w.log

Init ==
    /\ now = T(0, 0)
    /\ sim = ExecutionSimulatorInit
    /\ rm = RiskManagerInit(T(0, 0))
    /\ qe = QuoteEngineInit
    /\ log = LogInit

Tick(schedule, max_ticks) ==
    /\ log.n_ticks < max_ticks
    /\ now' = LET step == schedule[Min(log.n_ticks + 1, Len(schedule))]
              IN  AddU(AddD(now, step[1]), step[2])
    /\ log' = [log EXCEPT !.ev = << >>, !.n_ticks = @ + 1]
    /\ UNCHANGED <<sim, qe, rm>>

\* what the observers see of one book update
BookRec(w, w1, book) ==
    Emit(w1, [kind |-> "book", emergency |-> emergency_risk_shutdown(w.rm),
              open_before |-> w.qe.open, bid |-> BestBid(book), ask |-> BestAsk(book),
              before |-> Snapshot(w), orders_sent |-> w.qe.orders_sent,
              submitted |-> w.log.orig, book |-> book,
              last_orderbook |-> w.qe.last_orderbook])

_process_orderbook_sync_safe(w, book, delays, t) ==
    LET w1 == update_order_with_orderbook(w, book, delays, t)
        w2 == on_orderbook_update(w1, BestBid(book), BestAsk(book), t)
    IN  BookRec(w, update_orderbook(w2, book), book)

BookUpdate(book, delays) ==
    /\ Apply(_process_orderbook_sync_safe(World, book, delays, now))
    /\ UNCHANGED now

PlaceOrder(max_place, side, price, size, cancel_delay) ==
    /\ log.n_place < max_place
    /\ \A o \in log.orig : o.oid # <<side, price, now>>
    /\ \E engine_queue \in (IF BookOk(qe.last_orderbook)
                            THEN _calculate_queue_position(side, price,
                                                           Val(qe.last_orderbook))
                            ELSE {None}) :
       \E sim_queue \in _queue_ahead(sim, side, price) :
          Apply(NotePlace(place_order(World, side, price, size, qe.last_orderbook,
                                      engine_queue, sim_queue, cancel_delay, now),
                          now))
    /\ UNCHANGED now

CancelOrder(side, manual_cancel, cancel_delay) ==
    /\ IsSome(qe.open[side])
    /\ Apply(cancel_order(World, side, manual_cancel, cancel_delay, now))
    /\ UNCHANGED now

OnTrade(max_trades, trade_price, trade_qty, trade_side, offset, processing_delay) ==
    /\ log.n_trades < max_trades
    /\ Apply([on_trade(World, trade_price, trade_qty, trade_side,
                       AddU(now, offset), processing_delay, now)
                EXCEPT !.log.n_trades = @ + 1])
    /\ UNCHANGED now

Next ==
    \/ Tick(TickSchedule, MaxTicks)
    \/ \E book \in Books : BookUpdate(book, <<CancelDelayFor("buy"), CancelDelayFor("sell")>>)
    \/ \E p \in PlaceInputs : PlaceOrder(MaxPlace, p[1], p[2], p[3], CancelDelayFor(p[1]))
    \/ \E side \in SIDES : CancelOrder(side, TRUE, CancelDelayFor(side))
    \/ \E tr \in TradeInputs : \E off \in TradeStampOffsets : \E pd \in TradeDelays :
          OnTrade(MaxTrades, tr[1], tr[2], tr[3], off, pd)

Spec == Init /\ [][Next]_vars

(***************************************************************************)
(* Re-quoting: the book moves and the engine is asked for other prices,    *)
(* two seconds apart                                                       *)
(***************************************************************************)
MaxTicksR == 2
MaxPlaceR == 3

BooksR == {BookAt(BaseBid, BaseAsk), BookAt(BaseBid + Shift, BaseAsk + Shift)}

PlaceInputsR ==
    {<<"buy", BaseBid, 10 * LOT>>, <<"buy", BaseBid - TICK, 10 * LOT>>,
     <<"buy", BaseBid + Shift, 10 * LOT>>, <<"sell", BaseAsk + Shift, 10 * LOT>>}

TickScheduleR == << <<0, REPLACE_INTERVAL_SEC * SEC>> >>

NextR ==
    \/ Tick(TickScheduleR, MaxTicksR)
    \/ \E book \in BooksR : BookUpdate(book, <<CancelDelayFor("buy"), CancelDelayFor("sell")>>)
    \/ \E p \in PlaceInputsR : PlaceOrder(MaxPlaceR, p[1], p[2], p[3], CancelDelayFor(p[1]))
    \/ \E side \in SIDES : CancelOrder(side, TRUE, CancelDelayFor(side))

SpecR == Init /\ [][NextR]_vars

(***************************************************************************)
(* The simulator's own interface: cancel_order(order_id) called directly,  *)
(* for any identifier and any number of times                              *)
(***************************************************************************)
MaxTicksS == 2
MaxPlaceS == 1
MaxTradesS == 1
MaxCancelsS == 2

UnknownOrder == <<"buy", BaseBid, T(0, 1)>>

SimCancel(max_cancels, oid, cancel_delay) ==
    /\ Cardinality(log.cancels) < max_cancels
    /\ Apply(cancel_order_sim(World, oid, cancel_delay, now))
    /\ UNCHANGED now

TickScheduleS == << <<0, TRADE_DELAY_MAX>>, <<0, CANCEL_DELAY_MAX>> >>

NextS ==
    \/ Tick(TickScheduleS, MaxTicksS)
    \/ \E book \in Books : BookUpdate(book, <<CancelDelayFor("buy"), CancelDelayFor("sell")>>)
    \/ \E p \in PlaceInputs : PlaceOrder(MaxPlaceS, p[1], p[2], p[3], CancelDelayFor(p[1]))
    \/ \E oid \in {o.oid : o \in log.orig} \cup {UnknownOrder} :
          \E cd \in {CANCEL_DELAY_MIN, CANCEL_DELAY_MAX} : SimCancel(MaxCancelsS, oid, cd)
    \/ \E tr \in TradeInputs : \E pd \in TradeDelays :
          OnTrade(MaxTradesS, tr[1], tr[2], tr[3], 0, pd)

SpecS == Init /\ [][NextS]_vars

(***************************************************************************)
(* A falling market after the grace period: the engine buys, the book      *)
(* drops, the engine buys again                                            *)
(***************************************************************************)
MaxTicksK == 2
MaxPlaceK == 3
MaxTradesK == 2

HighBid == 4 * PX
LowBid == (366 * PX) \div 100

BooksK == {BookAt(HighBid, HighBid + 2 * TICK), BookAt(LowBid, LowBid + 2 * TICK)}
PlaceInputsK == {<<"buy", HighBid, 50 * LOT>>, <<"buy", LowBid, 10 * LOT>>}
TradeInputsK == {<<HighBid, 60 * LOT, "sell">>, <<LowBid, 20 * LOT, "sell">>}
TickScheduleK == << <<0, TRADE_DELAY_MAX>> >>

InitK ==
    /\ now = T(0, GRACE_MINUTES * 60 * SEC)
    /\ sim = ExecutionSimulatorInit
    /\ rm = RiskManagerInit(T(0, 0))
    /\ qe = QuoteEngineInit
    /\ log = LogInit

NextK ==
    \/ Tick(TickScheduleK, MaxTicksK)
    \/ \E book \in BooksK : BookUpdate(book, <<CancelDelayFor("buy"), CancelDelayFor("sell")>>)
    \/ \E p \in PlaceInputsK : PlaceOrder(MaxPlaceK, p[1], p[2], p[3], CancelDelayFor(p[1]))
    \/ \E tr \in TradeInputsK : \E pd \in TradeDelays :
          OnTrade(MaxTradesK, tr[1], tr[2], tr[3], 0, pd)

SpecK == InitK /\ [][NextK]_vars

(***************************************************************************)
(* Fills more than thirty days apart                                       *)
(***************************************************************************)
MaxTicksV == 3
MaxPlaceV == 2
MaxTradesV == 2

PlaceInputsV == {<<"buy", BaseBid, 10 * LOT>>}
TradeInputsV == {<<BaseBid, 20 * LOT, "sell">>}
TickScheduleV ==
    << <<0, TRADE_DELAY_MAX>>, <<VOLUME_WINDOW_DAYS + 1, 0>>, <<0, TRADE_DELAY_MAX>> >>

NextV ==
    \/ Tick(TickScheduleV, MaxTicksV)
    \/ \E book \in Books : BookUpdate(book, <<CancelDelayFor("buy"), CancelDelayFor("sell")>>)
    \/ \E p \in PlaceInputsV : PlaceOrder(MaxPlaceV, p[1], p[2], p[3], CancelDelayFor(p[1]))
    \/ \E tr \in TradeInputsV : \E pd \in TradeDelays :
          OnTrade(MaxTradesV, tr[1], tr[2], tr[3], 0, pd)

SpecV == Init /\ [][NextV]_vars

(***************************************************************************)
(* Properties                                                              *)
(***************************************************************************)
Recs(kind) == {i \in 1..Len(log.ev) : log.ev[i].kind = kind}
TradeRecs == {i \in Recs("trade") : TRUE}
FillRecs == {i \in Recs("trade") : log.ev[i].fill_qty > 0}
CancelDispatches == {i \in Recs("dispatch") : log.ev[i].ev.event_type = "cancel"}
TradeDispatches == {i \in Recs("dispatch") : log.ev[i].ev.event_type = "trade_update"}

Ids(live) == {live[i].id : i \in 1..Len(live)}
PublishedCancels == {log.cancel_pub[k] : k \in 1..Len(log.cancel_pub)}
OrigQty(oid) == (CHOOSE o \in log.orig : o.oid = oid).qty

RECURSIVE FilledFrom(_, _)
FilledFrom(oid, i) ==
    IF i > Len(sim.fills) THEN 0
    ELSE (IF sim.fills[i].oid = oid THEN sim.fills[i].qty ELSE 0)
         + FilledFrom(oid, i + 1)
FilledOf(oid) == FilledFrom(oid, 1)

\* C1: every fill is at most the trade's size, at most the part of the trade
\* that passed the queue ahead of the order, and at most the order's remaining
\* quantity before the fill.
C1_FillWithinTradeQueueRemaining ==
    \A i \in FillRecs :
        LET r == log.ev[i]
        IN  /\ r.fill_qty <= r.trade_qty
            /\ r.fill_qty <= Max(0, r.trade_qty - r.old_queue)
            /\ r.fill_qty <= r.rem_before

C1_Witness ==
    \E i \in FillRecs :
        LET r == log.ev[i]
        IN  /\ r.old_queue > 0
            /\ r.fill_qty = r.trade_qty - r.old_queue
            /\ r.fill_qty < r.rem_before

\* C2: after every operation, an order the engine's mirror holds on a side is
\* in the simulator's live-order table under the same identifier.
C2_MirrorOrderIsLive ==
    \A side \in SIDES :
        IsSome(qe.open[side]) => Val(qe.open[side]).order_id \in Ids(sim.live_orders)

\* a delayed cancel removed an earlier order of a side whose mirror slot
\* already holds the next one
C2_Witness ==
    \E i \in CancelDispatches :
        LET r == log.ev[i]
        IN  /\ r.ev.order_id \in Ids(r.before.live)
            /\ IsSome(qe.open[r.ev.order_id[1]])
            /\ Val(qe.open[r.ev.order_id[1]]).order_id # r.ev.order_id
            /\ \E j \in 1..Len(sim.fills) :
                  sim.fills[j].oid = Val(qe.open[r.ev.order_id[1]]).order_id

C5_NoFillFromTradeStampedAfterCancel ==
    \A i \in FillRecs : \A c \in log.cancels :
        c.oid = log.ev[i].oid => ~Before(c.at, log.ev[i].trade_ts)

\* C5 (amended): a trade timestamped after the effective time of a cancel of
\* an order does not fill that order, provided the trade is not future-dated:
\* its timestamp is not later than the time it is scheduled for (receipt plus
\* processing latency).
C5_NoFillAfterCancelUnlessFutureDated ==
    \A i \in FillRecs : \A c \in log.cancels :
        (c.oid = log.ev[i].oid /\ ~Before(log.ev[i].exec_at, log.ev[i].trade_ts))
            => ~Before(c.at, log.ev[i].trade_ts)

\* a trade at the price and against the side of an order whose cancel took
\* effect before the trade's timestamp is dispatched, and fills nothing
C5_Witness ==
    \E i \in TradeDispatches : \E c \in log.cancels :
        LET r == log.ev[i]
        IN  /\ Before(c.at, r.ev.ts)
            /\ ~Before(r.ev.execute_time, r.ev.ts)
            /\ c.oid \in PublishedCancels
            /\ TradeMatches([side |-> c.oid[1], price |-> c.oid[2]],
                            r.ev.trade_price, r.ev.trade_side)
            /\ c.oid \notin Ids(r.before.live)
            /\ r.after.position = r.before.position
            /\ r.after.cash = r.before.cash

PendingCancels ==
    {sim.event_queue[i].order_id :
        i \in {j \in 1..Len(sim.event_queue) : sim.event_queue[j].event_type = "cancel"}}

\* C7: an order whose cancel is submitted and not yet effective is still in
\* the table unless it was filled completely; a matching trade that reaches
\* it meanwhile fills it and moves position and cash by the fill; the cancel
\* event then removes exactly the unfilled remainder, or changes nothing when
\* the order is gone.
C7_LiveUntilCancelTakesEffect ==
    /\ \A oid \in PendingCancels :
          oid \in Ids(sim.live_orders) \/ FilledOf(oid) = OrigQty(oid)
    /\ \A i \in TradeRecs :
          LET r == log.ev[i]
              sign == IF r.side = "buy" THEN 1 ELSE -1
          IN  (r.cancel_pending /\ r.trade_qty > r.old_queue) =>
                /\ r.fill_qty = Min(r.rem_before, r.trade_qty - r.old_queue)
                /\ r.fill_qty > 0
                /\ r.pos_after = r.pos_before + sign * r.fill_qty
                /\ r.cash_after = r.cash_before - sign * r.fill_qty * r.price - r.fee
    /\ \A i \in CancelDispatches :
          LET r == log.ev[i]
              oid == r.ev.order_id
          IN  /\ r.after.cash = r.before.cash
              /\ r.after.position = r.before.position
              /\ IF oid \in Ids(r.before.live)
                 THEN /\ r.after.live = SelectSeq(r.before.live, LAMBDA o : o.id # oid)
                      /\ r.before.live[IndexOf(r.before.live, oid)].qty
                            = OrigQty(oid) - FilledOf(oid)
                 ELSE r.after.live = r.before.live

\* a cancel event removes the remainder of an order that was partly filled
\* after the cancel was submitted and before its effective time
C7_Witness ==
    \E i \in CancelDispatches :
        LET r == log.ev[i]
            oid == r.ev.order_id
        IN  /\ oid \in Ids(r.before.live)
            /\ r.before.live[IndexOf(r.before.live, oid)].qty < OrigQty(oid)
            /\ \E j \in 1..Len(sim.fills) :
                  /\ sim.fills[j].oid = oid
                  /\ log.fill_info[j].cancel_pending
                  /\ Before(log.fill_info[j].at, r.ev.execute_time)

RECURSIVE FeesFrom(_)
FeesFrom(i) ==
    IF i > Len(sim.fills) THEN 0
    ELSE FeeOf(sim.fills[i].qty * sim.fills[i].price, log.fill_info[i].rate)
         + FeesFrom(i + 1)

\* C9: the fees of all fills, each at the rate in force at that fill, add up
\* to the engine's total_fees_paid.
C9_FeesOfFillsEqualTotalFeesPaid == FeesFrom(1) = qe.total_fees_paid

PlaceRecs == Recs("place")
CancelRequested == {c.oid : c \in log.cancels}

\* C3: the engine has at most one open order per side: each mirror slot holds
\* an order of its own side, at most one live order of a side has no cancel
\* requested, and a placement accepted on an occupied side either amends the
\* held order in place or requests its cancel before the new order takes the
\* slot.
C3_OneOpenOrderPerSide ==
    /\ \A side \in SIDES :
          /\ IsSome(qe.open[side]) => Val(qe.open[side]).side = side
          /\ Cardinality({oid \in Ids(sim.live_orders) \ CancelRequested :
                              oid[1] = side}) <= 1
    /\ \A i \in PlaceRecs :
          LET r == log.ev[i]
          IN  (r.ok /\ IsSome(r.old)) =>
                /\ IsSome(qe.open[r.side])
                /\ \/ /\ r.how = "amend"
                      /\ Val(qe.open[r.side]).order_id = Val(r.old).order_id
                   \/ /\ r.how = "new"
                      /\ Val(qe.open[r.side]).order_id # Val(r.old).order_id
                      /\ Val(r.old).order_id \in CancelRequested

\* a placement replaced the order its side held
C3_Witness ==
    \E i \in PlaceRecs :
        /\ log.ev[i].ok /\ IsSome(log.ev[i].old) /\ log.ev[i].how = "new"
        /\ Val(log.ev[i].old).order_id \in Ids(sim.live_orders)

\* the original sentence of C6: while the emergency shutdown condition holds,
\* no place_order call is accepted
C6_NoPlacementAcceptedDuringEmergency ==
    \A i \in PlaceRecs : log.ev[i].emergency => ~log.ev[i].ok

InWindow(at, t) == ~Before(at, AddD(t, -VOLUME_WINDOW_DAYS))

RECURSIVE NotionalFrom(_, _)
NotionalFrom(i, windowed) ==
    IF i > Len(sim.fills) THEN 0
    ELSE (IF windowed => InWindow(log.fill_info[i].at, now)
          THEN sim.fills[i].qty * sim.fills[i].price ELSE 0)
         + NotionalFrom(i + 1, windowed)

\* C10: right after every operation that did something (a placement, a
\* cancel, a dispatched event, not only a fill), the rolling total is the
\* notional of the fills of the last thirty days.
C10_RollingVolumeAfterEveryEvent ==
    log.ev # << >> => sim.total_volume_30d = NotionalFrom(1, TRUE)

\* the equality of C10 restricted to the operations in which the code evicts:
\* right after an operation that filled an order
RollingVolumeAfterFill ==
    FillRecs # {} => sim.total_volume_30d = NotionalFrom(1, TRUE)

\* a fill arrives when an earlier fill has left the window
RollingVolumeEvicts ==
    /\ FillRecs # {}
    /\ NotionalFrom(1, TRUE) > 0
    /\ NotionalFrom(1, TRUE) < NotionalFrom(1, FALSE)

(***************************************************************************)
(* Order-to-trade ratio                                                    *)
(***************************************************************************)
InRatioWindow(at) == Before(AddU(now, -(OT_RATIO_WINDOW * SEC)), at)

PlacedInWindow == Cardinality({i \in 1..Len(log.placed) : InRatioWindow(log.placed[i])})
SimFillsInWindow ==
    Cardinality({i \in 1..Len(log.fill_info) : InRatioWindow(log.fill_info[i].at)})

\* C11: whenever the simulator produced a fill in the last five minutes, the
\* windowed order-to-trade ratio is the number of accepted placements and
\* amendments of the last five minutes over the number of those fills
C11_WindowedRatioCountsSimulatorFills ==
    SimFillsInWindow > 0 =>
        LET r == get_order_to_trade_ratio(qe, TRUE)
        IN  r[2] > 0 /\ r[1] * SimFillsInWindow = PlacedInWindow * r[2]

(***************************************************************************)
(* The simulator's trade path: one resting bid, trades of every kind of    *)
(* price, side, size, timestamp and processing latency.                    *)
(***************************************************************************)
MaxTicksT == 3
MaxPlaceT == 1
MaxTradesT == 2

PlaceInputsT == {<<"buy", BaseBid, 10 * LOT>>}
\* a trade of exactly the queue ahead (0.01), a larger one, one on the order's
\* own side and one a tick below the order
TradeInputsT ==
    {<<BaseBid, 1, "sell">>, <<BaseBid, 5, "sell">>,
     <<BaseBid, 5, "buy">>, <<BaseBid - TICK, 5, "sell">>}
TradeStampOffsetsT ==
    {-(STALE_TRADE_SEC * SEC) - 1, -(STALE_TRADE_SEC * SEC), 0,
     FUTURE_TRADE_SEC * SEC, FUTURE_TRADE_SEC * SEC + 1}
TradeDelaysT == {TRADE_DELAY_MIN, TRADE_DELAY_MAX}
TickScheduleT == << <<0, TRADE_DELAY_MIN>>, <<0, TRADE_DELAY_MAX>> >>

NextT ==
    \/ Tick(TickScheduleT, MaxTicksT)
    \/ \E book \in Books : BookUpdate(book, <<CancelDelayFor("buy"), CancelDelayFor("sell")>>)
    \/ \E p \in PlaceInputsT : PlaceOrder(MaxPlaceT, p[1], p[2], p[3], CancelDelayFor(p[1]))
    \/ \E tr \in TradeInputsT : \E off \in TradeStampOffsetsT : \E pd \in TradeDelaysT :
          OnTrade(MaxTradesT, tr[1], tr[2], tr[3], off, pd)

SpecT == Init /\ [][NextT]_vars

\* C12: fills are reported in trade-arrival order: of two fills, the earlier
\* one comes from a trade that on_trade received no later than the other's
C12_FillsInTradeArrivalOrder ==
    \A i, j \in 1..Len(log.fill_src) :
        i < j => \E a, b \in 1..Len(log.arrivals) :
                    /\ a <= b
                    /\ log.arrivals[a] = log.fill_src[i]
                    /\ log.arrivals[b] = log.fill_src[j]

(***************************************************************************)
(* The event-queue lock                                                    *)
(***************************************************************************)
\* C13 as stated: every mutation of the live-order table and of the
\* delayed-event queue is made while the simulator's lock is held
C13_EveryMutationHoldsLock == \A m \in log.mut : m.locked

\* C13: every push on and pop from the delayed-event queue is made while the
\* lock is held, and the lock is free again when the operation returns
C13_QueueMutationsHoldLock ==
    /\ \A m \in log.mut : m.target = "event_queue" => m.locked
    /\ ~sim.event_queue_lock

C13_Witness ==
    /\ \E m \in log.mut : m.op = "push_cancel" /\ m.locked
    /\ \E m \in log.mut : m.op = "push_trade" /\ m.locked
    /\ \E m \in log.mut : m.op = "pop" /\ m.locked
    /\ \E m \in log.mut : m.target = "live_orders" /\ ~m.locked

(***************************************************************************)
(* Which trades touch an order                                             *)
(***************************************************************************)
\* the trade is at the order's price level and its aggressor is on the other side
Touches(o, ev) ==
    /\ 2 * Abs(o.price - ev.trade_price) < TICK
    /\ o.side # ev.trade_side

InSeq(x, seq) == \E k \in 1..Len(seq) : seq[k] = x

\* C14: a processed trade leaves every order it does not touch exactly as it
\* was, and when it touches no live order the cash, the position and the
\* fill list stay as they were
C14_OnlyMatchingTradesTouchOrders ==
    \A i \in TradeDispatches :
        LET r == log.ev[i]
        IN  /\ \A k \in 1..Len(r.before.live) :
                  ~Touches(r.before.live[k], r.ev) => InSeq(r.before.live[k], r.after.live)
            /\ (\A k \in 1..Len(r.before.live) : ~Touches(r.before.live[k], r.ev))
                  => /\ r.after.cash = r.before.cash
                     /\ r.after.position = r.before.position
                     /\ r.after.fills = r.before.fills
                     /\ r.after.live = r.before.live

\* a trade on the order's own side at the order's price has been processed
C14_Witness ==
    \E i \in TradeDispatches :
        LET r == log.ev[i]
        IN  \E k \in 1..Len(r.before.live) :
                /\ r.before.live[k].price = r.ev.trade_price
                /\ r.before.live[k].side = r.ev.trade_side
                /\ r.after.live = r.before.live

(***************************************************************************)
(* A trade that exactly consumes the queue ahead                           *)
(***************************************************************************)
\* the dispatch record of the event a trade record belongs to
DispatchOf(r) ==
    {j \in TradeDispatches : log.ev[j].ev.execute_time = r.exec_at}

\* C15: a matching trade whose size equals the order's queue ahead brings the
\* queue to zero and fills nothing: the order stays live with its remaining
\* quantity, and cash, position and the fill list are as before
C15_ExactQueueTradeFillsNothing ==
    \A i \in TradeRecs :
        LET r == log.ev[i]
        IN  r.trade_qty = r.old_queue =>
                /\ r.fill_qty = 0 /\ ~r.remove
                /\ r.cash_after = r.cash_before /\ r.pos_after = r.pos_before
                /\ \A j \in DispatchOf(r) :
                      /\ \E k \in 1..Len(log.ev[j].after.live) :
                            /\ log.ev[j].after.live[k].id = r.oid
                            /\ log.ev[j].after.live[k].queue_ahead = 0
                            /\ log.ev[j].after.live[k].qty = r.rem_before
                      /\ log.ev[j].after.fills = log.ev[j].before.fills

C15_Witness ==
    \E i \in TradeRecs :
        /\ log.ev[i].old_queue > 0
        /\ log.ev[i].trade_qty = log.ev[i].old_queue
        /\ DispatchOf(log.ev[i]) # {}
        /\ sim.fills = << >>

(***************************************************************************)
(* on_trade: the timestamp check and the processing latency                *)
(***************************************************************************)
OnTradeRecs == Recs("on_trade")

TooOld(r) == Diff(r.at, r.ts) > STALE_TRADE_SEC * SEC
TooNew(r) == Diff(r.ts, r.at) > FUTURE_TRADE_SEC * SEC

\* the events of the queue after the call that were not there before it
Enqueued(r) ==
    {k \in 1..Len(r.queue_after) : ~InSeq(r.queue_after[k], r.queue_before)}

\* C16: on_trade drops a trade stamped more than 5 s in the past or more than
\* 1 s in the future, enqueuing nothing and changing nothing; for every other
\* trade it enqueues exactly one trade_update event, due 200 to 800
\* microseconds after the call
C16_OnTradeDropsOrEnqueuesOne ==
    \A i \in OnTradeRecs :
        LET r == log.ev[i]
        IN  /\ r.after = r.before
            /\ IF TooOld(r) \/ TooNew(r)
               THEN r.queue_after = r.queue_before
               ELSE /\ Len(r.queue_after) = Len(r.queue_before) + 1
                    /\ Cardinality(Enqueued(r)) = 1
                    /\ \A k \in Enqueued(r) :
                          /\ r.queue_after[k].event_type = "trade_update"
                          /\ r.queue_after[k].ts = r.ts
                          /\ Diff(r.queue_after[k].execute_time, r.at) >= TRADE_DELAY_MIN
                          /\ Diff(r.queue_after[k].execute_time, r.at) <= TRADE_DELAY_MAX

\* a stale or future-dated trade has been dropped after another was enqueued
C16_Witness ==
    \E i \in OnTradeRecs :
        /\ TooOld(log.ev[i]) \/ TooNew(log.ev[i])
        /\ log.ev[i].queue_before # << >>
        /\ log.ev[i].queue_after = log.ev[i].queue_before

(***************************************************************************)
(* place_order: the checks on value, size and position                     *)
(***************************************************************************)
MaxTicksP == 3
MaxPlaceP == 3
MaxTradesP == 1

\* a full-size ask, a bid, a bid worth less than a dollar and a bid of 0.09
PlaceInputsP ==
    {<<"sell", BaseAsk, MAX_POSITION_SIZE>>, <<"buy", BaseBid, 10 * LOT>>,
     <<"buy", BaseBid, 1 * LOT>>, <<"buy", 20 * PX, 9>>}
TradeInputsP == {<<BaseAsk, 3 * MAX_POSITION_SIZE, "buy">>}
TickScheduleP == << <<0, TRADE_DELAY_MAX>>, <<0, REPLACE_INTERVAL_SEC * SEC>> >>

NextP ==
    \/ Tick(TickScheduleP, MaxTicksP)
    \/ \E book \in Books : BookUpdate(book, <<CancelDelayFor("buy"), CancelDelayFor("sell")>>)
    \/ \E p \in PlaceInputsP : PlaceOrder(MaxPlaceP, p[1], p[2], p[3], CancelDelayFor(p[1]))
    \/ \E side \in SIDES : CancelOrder(side, TRUE, CancelDelayFor(side))
    \/ \E tr \in TradeInputsP : OnTrade(MaxTradesP, tr[1], tr[2], tr[3], 0, TRADE_DELAY_MAX)

SpecP == Init /\ [][NextP]_vars

BelowMinimum(r) == r.size * r.price < MIN_ORDER_VALUE \/ r.size * 10 < LOT

PositionAfter(r) ==
    IF r.side = "buy" THEN r.before.position + r.size ELSE r.before.position - r.size

\* the call returned False and neither submitted nor amended anything
Rejected(r) ==
    /\ ~r.ok
    /\ sim.live_orders = r.before.live
    /\ qe.open = r.before.open
    /\ qe.orders_sent = r.orders_sent

RejectedBelowMinimumValue == \E i \in PlaceRecs : log.ev[i].how = "min_value"
RejectedBelowMinimumSize == \E i \in PlaceRecs : log.ev[i].how = "min_size"

(***************************************************************************)
(* Emergency at a book update                                              *)
(***************************************************************************)
BookRecs == Recs("book")

\* C18: after a book update that found the risk manager's emergency condition
\* true, the engine holds no open order on either side
C18_EmergencyBookUpdateCancelsAll ==
    \A i \in BookRecs :
        log.ev[i].emergency => qe.open["buy"] = None /\ qe.open["sell"] = None

(***************************************************************************)
(* The order-rate limit, as test_order_rate_limit_blocks_orders sets it up *)
(***************************************************************************)
MaxTicksL == 3
MaxPlaceL == 4
TEST_MAX_ORDERS_PER_SECOND == 2

TestBid == 100 * PX
TestAsk == 101 * PX
TestBook == [bids |-> <<Level(TestBid, 1 * LOT)>>, asks |-> <<Level(TestAsk, 1 * LOT)>>]

\* the test's order of 0.01 and orders of 0.1 and 1
PlaceInputsL ==
    {<<"buy", TestBid, 1>>, <<"buy", TestBid, 10>>, <<"buy", TestBid, 1 * LOT>>,
     <<"sell", TestAsk, 1 * LOT>>}
TickScheduleL == << <<0, SEC \div 2>> >>

InitL ==
    /\ now = T(0, 0)
    /\ sim = ExecutionSimulatorInit
    /\ rm = [RiskManagerInit(T(0, 0)) EXCEPT
                !.limits.max_orders_per_second = TEST_MAX_ORDERS_PER_SECOND]
    /\ qe = QuoteEngineInit
    /\ log = LogInit

\* qe.place_order(side, price, size, orderbook) with the test's book
TestPlaceOrder(side, price, size, cancel_delay) ==
    /\ log.n_place < MaxPlaceL
    /\ \A o \in log.orig : o.oid # <<side, price, now>>
    /\ \E engine_queue \in _calculate_queue_position(side, price, TestBook) :
       \E sim_queue \in _queue_ahead(sim, side, price) :
          Apply(NotePlace(place_order(World, side, price, size, Some(TestBook),
                                      engine_queue, sim_queue, cancel_delay, now),
                          now))
    /\ UNCHANGED now

NextL ==
    \/ Tick(TickScheduleL, MaxTicksL)
    \/ \E p \in PlaceInputsL : TestPlaceOrder(p[1], p[2], p[3], CancelDelayFor(p[1]))

SpecL == InitL /\ [][NextL]_vars

AttemptsInLastSecond ==
    Cardinality({i \in 1..Len(log.attempts) :
                    Before(AddU(now, -(ORDER_WINDOW_SECONDS * SEC)), log.attempts[i])})

\* C19: with max_orders_per_second = 2 on the 100.0/101.0 book, a buy of 0.01
\* at 100.0 is accepted whenever it is one of at most two attempts of the last
\* second, and an attempt beyond the limit returns False
C19_AcceptedUpToLimitThenBlocked ==
    \A i \in PlaceRecs :
        /\ AttemptsInLastSecond > rm.limits.max_orders_per_second => ~log.ev[i].ok
        /\ (/\ log.ev[i].side = "buy" /\ log.ev[i].price = TestBid /\ log.ev[i].size = 1
            /\ AttemptsInLastSecond <= rm.limits.max_orders_per_second) => log.ev[i].ok

\* the half of it that holds: no attempt beyond the limit is accepted
OverLimitAttemptRejected ==
    \A i \in PlaceRecs :
        AttemptsInLastSecond > rm.limits.max_orders_per_second => ~log.ev[i].ok

OverLimitAttemptReached ==
    \E i \in PlaceRecs :
        /\ AttemptsInLastSecond > rm.limits.max_orders_per_second
        /\ log.ev[i].how = "risk"

(***************************************************************************)
(* _same_price_level on prices off the tick grid: here a price is a number *)
(* of tenths of a tick, and the default tick is FineTick.                  *)
(***************************************************************************)
FineTick == 10 * TICK
Price100 == 100 * PX * FineTick          \* 100.00
Price100_004 == Price100 + 40 * FineTick \* 100.004
Price100_006 == Price100 + 60 * FineTick \* 100.006

\* differences of nothing, less than half, half, more than half and a whole
\* tick, and the two of the tests
PriceInputs ==
    {Price100 + d : d \in {-FineTick, -6, -5, -4, 0, 4, 5, 6, FineTick,
                          40 * FineTick, 60 * FineTick}}

SamePriceLevel(a, b) ==
    /\ log' = [log EXCEPT !.ev = <<[kind |-> "same_level", a |-> a, b |-> b,
                                    result |-> SamePriceLevelAt(a, b, FineTick)]>>]
    /\ UNCHANGED <<sim, qe, rm, now>>

NextF == \E a, b \in PriceInputs : SamePriceLevel(a, b)

SpecF == Init /\ [][NextF]_vars

SameLevelRecs == Recs("same_level")

\* C20: two prices are the same level exactly when they differ by less than
\* half a tick; 100.00 and 100.004 are the same level, 100.00 and 100.006 are not
C20_SameLevelIffWithinHalfTick ==
    \A i \in SameLevelRecs :
        LET r == log.ev[i]
        IN  /\ r.result <=> (2 * Abs(r.a - r.b) < FineTick)
            /\ (r.a = Price100 /\ r.b = Price100_004) => r.result
            /\ (r.a = Price100 /\ r.b = Price100_006) => ~r.result

\* the general half of it, which holds: same level exactly below half a tick
SameLevelExactlyBelowHalfTick ==
    \A i \in SameLevelRecs :
        log.ev[i].result <=> (2 * Abs(log.ev[i].a - log.ev[i].b) < FineTick)

HalfTickApartIsNotSameLevel ==
    \E i \in SameLevelRecs :
        /\ 2 * Abs(log.ev[i].a - log.ev[i].b) = FineTick
        /\ ~log.ev[i].result

(***************************************************************************)
(* RiskMonitor: the risk grade.  A ratio is a fraction <<orders, fills>>;  *)
(* a summary is [active_risk_breaches, emergency_stops], the second being  *)
(* the value of risk_summary.get('emergency_stops', 0).                    *)
(***************************************************************************)
RatioAbove(r, k) == IF r[2] = 0 THEN r[1] > 0 ELSE r[1] > k * r[2]

RiskScore(risk_summary, ot_ratio, latency_summary) ==
    100 - risk_summary.active_risk_breaches * 15
        - (IF risk_summary.emergency_stops > 0 THEN 30 ELSE 0)
        - (IF RatioAbove(ot_ratio, 25) THEN 20
           ELSE IF RatioAbove(ot_ratio, 15) THEN 10 ELSE 0)
        - (IF IsSome(latency_summary) /\ Val(latency_summary).critical_spikes > 0
           THEN 15 ELSE 0)

LetterGrade(score) ==
    IF score >= 90 THEN "A"
    ELSE IF score >= 80 THEN "B"
    ELSE IF score >= 70 THEN "C"
    ELSE IF score >= 60 THEN "D"
    ELSE "F"

_calculate_risk_grade(risk_summary, ot_ratio, latency_summary) ==
    LetterGrade(RiskScore(risk_summary, ot_ratio, latency_summary))

\* the engines, summaries, ratios and latency summaries a monitor is asked about
GradeSummaries ==
    [active_risk_breaches : 0..3, emergency_stops : {0, 1}]
GradeRatios == {<<0, 1>>, <<10, 1>>, <<16, 1>>, <<26, 1>>, <<1, 0>>}
GradeLatencies == {None, Some([critical_spikes |-> 0]), Some([critical_spikes |-> 1])}

\* RiskMonitor(qe)._calculate_risk_grade(...) for an engine whose risk manager
\* answers emergency_risk_shutdown() with the given value
RiskGrade(emergency, risk_summary, ot_ratio, latency_summary) ==
    /\ log' = [log EXCEPT !.ev =
                 <<[kind |-> "grade", emergency |-> emergency,
                    risk_summary |-> risk_summary, ot_ratio |-> ot_ratio,
                    latency_summary |-> latency_summary,
                    grade |-> _calculate_risk_grade(risk_summary, ot_ratio,
                                                    latency_summary)]>>]
    /\ UNCHANGED <<sim, qe, rm, now>>

NextG ==
    \E emergency \in BOOLEAN : \E risk_summary \in GradeSummaries :
    \E ot_ratio \in GradeRatios : \E latency_summary \in GradeLatencies :
        RiskGrade(emergency, risk_summary, ot_ratio, latency_summary)

SpecG == Init /\ [][NextG]_vars

GradeRecs == Recs("grade")

\* C21: with no active breaches, a ratio of 0 and no latency summary, the grade
\* is 'A' when the risk manager reports no emergency and 'C' when it reports one
C21_GradeFollowsEmergency ==
    \A i \in GradeRecs :
        LET r == log.ev[i]
        IN  (/\ r.risk_summary = [active_risk_breaches |-> 0, emergency_stops |-> 0]
             /\ r.ot_ratio = <<0, 1>>
             /\ r.latency_summary = None)
                => r.grade = (IF r.emergency THEN "C" ELSE "A")

\* what holds instead: on that input the grade is 'A' whatever the risk manager says
GradeIgnoresEmergency ==
    \A i \in GradeRecs :
        LET r == log.ev[i]
        IN  (/\ r.risk_summary = [active_risk_breaches |-> 0, emergency_stops |-> 0]
             /\ r.ot_ratio = <<0, 1>>
             /\ r.latency_summary = None)
                => r.grade = "A"

(***************************************************************************)
(* Orderbookstream._process_orderbook_update: the book update with the     *)
(* quoting decisions that follow it.  The order-book imbalance and the     *)
(* inventory skew are inputs: per side the update cancels, quotes at the   *)
(* best price or quotes one tick wider; quote = None is the crossed-skew   *)
(* hold.                                                                   *)
(***************************************************************************)
DEFAULT_ORDER_SIZE == 10 * LOT
MANUAL_CANCEL_COOLDOWN == 300 * MS

QuoteDecisions == {"cancel", "normal", "wide"}

QuotePrice(side, decision, book) ==
    IF side = "buy"
    THEN (IF decision = "wide" THEN BestBid(book) - TICK ELSE BestBid(book))
    ELSE (IF decision = "wide" THEN BestAsk(book) + TICK ELSE BestAsk(book))

\* the observer's note of one place_order call made by the stream
NoteStreamPlace(w, t) ==
    [w EXCEPT !.log.n_place = @ + 1,
              !.log.placed = IF w.log.ev[Len(w.log.ev)].ok THEN Append(@, t) ELSE @,
              !.log.attempts = IF w.log.ev[Len(w.log.ev)].how # "no_book"
                               THEN Append(@, t) ELSE @]

QuoteSide(w, side, decision, book, engine_queue, sim_queue, cancel_delay, t) ==
    IF decision = "cancel"
    THEN (IF IsSome(w.qe.open[side])
          THEN cancel_order(w, side, TRUE, cancel_delay, t) ELSE w)
    ELSE NoteStreamPlace(
            place_order(w, side, QuotePrice(side, decision, book), DEFAULT_ORDER_SIZE,
                        Some(book), engine_queue, sim_queue, cancel_delay, t), t)

InManualCooldown(w, t) ==
    /\ IsSome(w.qe.last_manual_cancel_time)
    /\ Diff(t, Val(w.qe.last_manual_cancel_time)) < MANUAL_CANCEL_COOLDOWN

\* variant: the spread is not looked at
QuoteOnBookAnySpread(w2, book, quote, engine_queues, sim_queues, delays, t) ==
    IF InManualCooldown(w2, t) THEN w2
    ELSE IF quote = None THEN w2
    ELSE QuoteSide(
            QuoteSide(w2, "buy", Val(quote)[1], book, engine_queues[1], sim_queues[1],
                      delays[1], t),
            "sell", Val(quote)[2], book, engine_queues[2], sim_queues[2], delays[2], t)

\* from the spread check on; w2 is the state after the engine and the
\* simulator have taken the book
QuoteOnBook(w2, book, quote, engine_queues, sim_queues, delays, t) ==
    IF 2 * (BestAsk(book) - BestBid(book)) <= TICK
    THEN cancel_all_orders(w2, FALSE, delays, t)
    ELSE IF InManualCooldown(w2, t) THEN w2
    ELSE IF quote = None THEN w2
    ELSE QuoteSide(
            QuoteSide(w2, "buy", Val(quote)[1], book, engine_queues[1], sim_queues[1],
                      delays[1], t),
            "sell", Val(quote)[2], book, engine_queues[2], sim_queues[2], delays[2], t)

_process_orderbook_update(w, book, quote, engine_queues, sim_queues, delays, t) ==
    BookRec(w,
            QuoteOnBook(
                update_orderbook(
                    on_orderbook_update(update_order_with_orderbook(w, book, delays, t),
                                        BestBid(book), BestAsk(book), t),
                    book),
                book, quote, engine_queues, sim_queues, delays, t),
            book)

MaxTicksQ == 3
MaxPlaceQ == 3

\* a book with a spread of two ticks and a locked one (spread 0)
LockedBook == BookAt(BaseBid, BaseBid)
BooksQ == {BookAt(BaseBid, BaseAsk), LockedBook}
Quotes == {None} \cup {Some(<<b, a>>) : b \in QuoteDecisions, a \in QuoteDecisions}
TickScheduleQ == << <<0, CANCEL_DELAY_MAX>>, <<0, REPLACE_INTERVAL_SEC * SEC>> >>

\* the values the queue estimates of the two place_order calls can draw
QueueDraws(side, decision, book) ==
    IF decision = "cancel" THEN {None}
    ELSE _calculate_queue_position(side, QuotePrice(side, decision, book), book)

SimQueueDraws(side, decision, book) ==
    IF decision = "cancel" THEN {0}
    ELSE _queue_ahead([last_orderbook |-> Some(book)], side,
                      QuotePrice(side, decision, book))

ProcessBookUpdate(book, quote, delays) ==
    /\ log.n_place < MaxPlaceQ
    /\ \A o \in log.orig : o.oid[3] # now
    /\ LET bd == IF quote = None THEN "cancel" ELSE Val(quote)[1]
           ad == IF quote = None THEN "cancel" ELSE Val(quote)[2]
       IN  \E eb \in QueueDraws("buy", bd, book) : \E ea \in QueueDraws("sell", ad, book) :
           \E sb \in SimQueueDraws("buy", bd, book) :
           \E sa \in SimQueueDraws("sell", ad, book) :
              Apply(_process_orderbook_update(World, book, quote, <<eb, ea>>, <<sb, sa>>,
                                              delays, now))
    /\ UNCHANGED now

NextQ ==
    \/ Tick(TickScheduleQ, MaxTicksQ)
    \/ \E book \in BooksQ : \E quote \in Quotes :
          ProcessBookUpdate(book, quote, <<CancelDelayFor("buy"), CancelDelayFor("sell")>>)

SpecQ == Init /\ [][NextQ]_vars

TightSpread(r) == 2 * (r.ask - r.bid) <= TICK

MaxTicksA == 3
MaxPlaceA == 3

TickScheduleA ==
    << <<0, SEC>>, <<0, (ORDER_TTL_SEC \div 2) * SEC>>,
       <<0, (ORDER_TTL_SEC \div 2) * SEC>> >>

PlaceInputsA ==
    {<<"buy", BaseBid, 10 * LOT>>, <<"buy", BaseBid - TICK, 10 * LOT>>,
     <<"buy", BaseBid - 2 * TICK, 10 * LOT>>, <<"sell", BaseAsk, 10 * LOT>>}

NextA ==
    \/ Tick(TickScheduleA, MaxTicksA)
    \/ \E book \in BooksR : BookUpdate(book, <<CancelDelayFor("buy"), CancelDelayFor("sell")>>)
    \/ \E p \in PlaceInputsA : PlaceOrder(MaxPlaceA, p[1], p[2], p[3], CancelDelayFor(p[1]))

SpecA == Init /\ [][NextA]_vars

AutoCancels(side) == {i \in Recs("auto_cancel") : log.ev[i].side = side}

\* Age of an order at the current book update, counted from its submission.
AgeAtUpdate(order) == Diff(now, order.order_id[3])

Amended(order) == order.price # order.order_id[2]

CrossedAt(order, book) ==
    IF order.side = "buy" THEN order.price > BestBid(book)
    ELSE order.price < BestAsk(book)

TooFarAt(order, r) ==
    LET away == IF order.side = "buy" THEN BestBid(r.book) - order.price
                ELSE order.price - BestAsk(r.book)
    IN  away > _get_adaptive_max_ticks([last_orderbook |-> r.last_orderbook], r.book) * TICK

\* C23: an open order older than ORDER_TTL_SEC at a book update is cancelled on
\* that update with reason "ttl", amended or not; an open order that is at most
\* ORDER_TTL_SEC old, not crossed and not farther from the best price than the
\* adaptive maximum is not cancelled by the ageing step and stays open.
C23_TtlCancelsOldOrdersOnly ==
    \A i \in BookRecs : \A side \in SIDES :
        IsSome(log.ev[i].open_before[side]) =>
            LET order == Val(log.ev[i].open_before[side])
            IN  /\ AgeAtUpdate(order) > ORDER_TTL_SEC * SEC =>
                      /\ \E j \in AutoCancels(side) :
                            /\ log.ev[j].reason = "ttl"
                            /\ log.ev[j].oid = order.order_id
                      /\ qe.open[side] = None
                      /\ order.order_id \in CancelRequested
                /\ (/\ AgeAtUpdate(order) <= ORDER_TTL_SEC * SEC
                    /\ ~CrossedAt(order, log.ev[i].book)
                    /\ ~TooFarAt(order, log.ev[i])) =>
                      /\ AutoCancels(side) = {}
                      /\ qe.open[side] = log.ev[i].open_before[side]

C23_Witness ==
    \E i \in BookRecs :
        /\ IsSome(log.ev[i].open_before["buy"])
        /\ Amended(Val(log.ev[i].open_before["buy"]))
        /\ AgeAtUpdate(Val(log.ev[i].open_before["buy"])) > ORDER_TTL_SEC * SEC
        /\ \E j \in AutoCancels("buy") : log.ev[j].reason = "ttl"
        /\ IsSome(log.ev[i].open_before["sell"])
        /\ AgeAtUpdate(Val(log.ev[i].open_before["sell"])) = ORDER_TTL_SEC * SEC
        /\ qe.open["sell"] = log.ev[i].open_before["sell"]


\* ---------------------------------------------------------------------------
\* The drain of the delayed-event queue (execution_simulator.py:352-369) with
\* the trade stream's thread calling on_trade while the drained events are being
\* dispatched: the first `position` events are dispatched, the trade arrives,
\* the remaining events are dispatched.
\* ---------------------------------------------------------------------------

DispatchAround(w, events, position, trade, t) ==
    DispatchAll(
        on_trade(DispatchAll(w, SubSeq(events, 1, position), t),
                 trade[1], trade[2], trade[3], t, trade[4], t),
        SubSeq(events, position + 1, Len(events)), t)

DrainWithArrival(w, book, events, position, trade, t) ==
    update_orderbook(
        DispatchAround(PopDue(w, BestBid(book), BestAsk(book), t, events),
                       events, Min(position, Len(events)), trade, t),
        book)

MaxTicksD == 3
MaxPlaceD == 1
MaxTradesD == 3
MaxPosition == 2

TradeInputsD == {<<BaseBid, 1, "sell">>, <<BaseBid, 5, "sell">>}
TickScheduleD == << <<0, TRADE_DELAY_MIN>>, <<0, TRADE_DELAY_MAX>>, <<0, CANCEL_DELAY_MAX>> >>

BookUpdateWithArrival(book, delays, position, trade) ==
    /\ log.n_trades < MaxTradesD
    /\ Apply([BookRec(World,
                      DrainWithArrival(
                          update_order_with_orderbook(World, book, delays, now), book,
                          Due(update_order_with_orderbook(World, book, delays, now)
                                  .sim.event_queue, now),
                          position, trade, now),
                      book)
                EXCEPT !.log.n_trades = @ + 1])
    /\ UNCHANGED now

NextD ==
    \/ Tick(TickScheduleD, MaxTicksD)
    \/ \E book \in Books : BookUpdate(book, <<CancelDelayFor("buy"), CancelDelayFor("sell")>>)
    \/ \E p \in PlaceInputsT : PlaceOrder(MaxPlaceD, p[1], p[2], p[3], CancelDelayFor(p[1]))
    \/ \E side \in SIDES : CancelOrder(side, TRUE, CancelDelayFor(side))
    \/ \E tr \in TradeInputsD : \E pd \in TradeDelaysT :
          OnTrade(MaxTradesD, tr[1], tr[2], tr[3], 0, pd)
    \/ \E book \in Books : \E position \in 0..MaxPosition :
       \E tr \in TradeInputsD : \E pd \in TradeDelaysT :
          BookUpdateWithArrival(book, <<CancelDelayFor("buy"), CancelDelayFor("sell")>>,
                                position, <<tr[1], tr[2], tr[3], pd>>)

SpecD == Init /\ [][NextD]_vars

Range(seq) == {seq[i] : i \in 1..Len(seq)}

DrainRecs == Recs("drain")

\* The events dispatched by the last operation, in the order of dispatch.
DispatchedEvents ==
    LET recs == SelectSeq(log.ev, LAMBDA r : r.kind = "dispatch")
    IN  [i \in 1..Len(recs) |-> recs[i].ev]

\* The events an on_trade call of the last operation has put on the queue.
ArrivedEvents ==
    {e \in UNION {Range(log.ev[i].queue_after) : i \in OnTradeRecs} :
        \A i \in OnTradeRecs : ~InSeq(e, log.ev[i].queue_before)}

MaxTicksE == 3
MaxPlaceE == 2
MaxTradesE == 1

TickScheduleE == << <<0, TRADE_DELAY_MIN>>, <<0, CANCEL_DELAY_MAX>> >>
PlaceInputsE == {<<"buy", BaseBid, 10 * LOT>>, <<"sell", BaseAsk, 10 * LOT>>}

ClockRuns == log.n_ticks < MaxTicksE

BookUpdatesE ==
    \E book \in Books : BookUpdate(book, <<CancelDelayFor("buy"), CancelDelayFor("sell")>>)

NextE ==
    \/ Tick(TickScheduleE, MaxTicksE)
    \/ BookUpdatesE
    \/ \E p \in PlaceInputsE :
          ClockRuns /\ PlaceOrder(MaxPlaceE, p[1], p[2], p[3], CancelDelayFor(p[1]))
    \/ \E side \in SIDES : ClockRuns /\ CancelOrder(side, TRUE, CancelDelayFor(side))
    \/ \E tr \in TradeInputsD : \E pd \in TradeDelaysT :
          ClockRuns /\ OnTrade(MaxTradesE, tr[1], tr[2], tr[3], 0, pd)

\* The last operation was a book update.
BookArrived == BookRecs # {}

\* Fairness: the clock advances while it can, and book updates keep arriving
\* (again and again the last operation is a book update).
SpecE ==
    /\ Init
    /\ [][NextE]_vars
    /\ WF_vars(Tick(TickScheduleE, MaxTicksE))
    /\ []<>BookArrived

QueueEmpty == sim.event_queue = << >>

\* An event leaves the queue only into a dispatch of the same step.
LeavesByDispatch ==
    \A k \in 1..Len(sim.event_queue) :
        ~InSeq(sim.event_queue[k], sim.event_queue') =>
            \E j \in 1..Len(log.ev') :
                /\ log.ev'[j].kind = "dispatch"
                /\ log.ev'[j].ev = sim.event_queue[k]

MaxTicksX == 3
MaxPlaceX == 2
MaxTradesX == 2

TradeInputsX ==
    {<<BaseBid, 5, "sell">>, <<BaseBid, 20 * LOT, "sell">>, <<BaseAsk, 20 * LOT, "buy">>}
PlaceInputsX == {<<"buy", BaseBid, 10 * LOT>>, <<"sell", BaseAsk, 10 * LOT>>}

NextX ==
    \/ Tick(TickScheduleT, MaxTicksX)
    \/ \E book \in Books : BookUpdate(book, <<CancelDelayFor("buy"), CancelDelayFor("sell")>>)
    \/ \E p \in PlaceInputsX : PlaceOrder(MaxPlaceX, p[1], p[2], p[3], CancelDelayFor(p[1]))
    \/ \E tr \in TradeInputsX : \E pd \in TradeDelaysT :
          OnTrade(MaxTradesX, tr[1], tr[2], tr[3], 0, pd)

SpecX == Init /\ [][NextX]_vars

\* The volume of a trade left after the queue ahead of the order is consumed.
Reached(r) == r.trade_qty - r.old_queue

LiveAfter(j, oid) ==
    {k \in 1..Len(log.ev[j].after.live) : log.ev[j].after.live[k].id = oid}

NewFills(j) ==
    SubSeq(log.ev[j].after.fills, Len(log.ev[j].before.fills) + 1,
           Len(log.ev[j].after.fills))

\* C26: when the volume reaching an order is positive and less than its
\* remaining quantity, the order is filled by exactly that volume and stays live
\* with the remainder and nothing ahead of it; when the volume is at least the
\* remaining quantity, the order is filled for exactly the remainder and is
\* no longer live.
C26_PartialFillStaysLiveFullFillRemoved ==
    \A i \in TradeRecs :
        LET r == log.ev[i]
        IN  /\ (Reached(r) > 0 /\ Reached(r) < r.rem_before) =>
                  /\ r.fill_qty = Reached(r)
                  /\ \A j \in DispatchOf(r) :
                        /\ \E k \in LiveAfter(j, r.oid) :
                              /\ log.ev[j].after.live[k].qty = r.rem_before - Reached(r)
                              /\ log.ev[j].after.live[k].queue_ahead = 0
                        /\ \E f \in Range(NewFills(j)) :
                              f.oid = r.oid /\ f.qty = Reached(r)
            /\ Reached(r) >= r.rem_before =>
                  /\ r.fill_qty = r.rem_before
                  /\ \A j \in DispatchOf(r) :
                        /\ LiveAfter(j, r.oid) = {}
                        /\ \E f \in Range(NewFills(j)) :
                              f.oid = r.oid /\ f.qty = r.rem_before

\* an order first filled in part and then, by a later trade, for its remainder
C26_Witness ==
    \E i \in TradeRecs :
        /\ log.ev[i].rem_before < 10 * LOT
        /\ Reached(log.ev[i]) >= log.ev[i].rem_before
        /\ log.ev[i].fill_qty = log.ev[i].rem_before
        /\ \E j \in DispatchOf(log.ev[i]) : LiveAfter(j, log.ev[i].oid) = {}


\* ---------------------------------------------------------------------------
\* Accounting of fills (execution_simulator.py:293-334).
\* ---------------------------------------------------------------------------

Signed(side, x) == IF side = "buy" THEN x ELSE -x

RECURSIVE PositionFrom(_)
PositionFrom(i) ==
    IF i > Len(sim.fills) THEN 0
    ELSE Signed(sim.fills[i].side, sim.fills[i].qty) + PositionFrom(i + 1)

RECURSIVE CashFrom(_)
CashFrom(i) ==
    IF i > Len(sim.fills) THEN 0
    ELSE CashFrom(i + 1) - sim.fills[i].fee
         - Signed(sim.fills[i].side, sim.fills[i].qty * sim.fills[i].price)

FillPubs == {j \in Recs("pub") : log.ev[j].type = "fill"}

\* the fill records present when the last operation began
FillsAtStart ==
    IF Recs("dispatch") = {} THEN Len(sim.fills)
    ELSE Len(log.ev[CHOOSE j \in Recs("dispatch") :
                        \A k \in Recs("dispatch") : j <= k].before.fills)

\* C27: a fill of quantity f at the order's price p under the active fee rate r
\* moves position by +f (buy) or -f (sell) and cash by -p*f (buy) or +p*f
\* (sell) less the fee f*p*r, and appends exactly one fill record before the
\* fill event is published; so position is the signed sum of the recorded fill
\* quantities and cash is the initial cash plus the signed notionals less the
\* recorded fees.
C27_FillAccounting ==
    /\ \A i \in FillRecs :
          LET r == log.ev[i]
          IN  /\ r.pos_after - r.pos_before = Signed(r.side, r.fill_qty)
              /\ r.cash_after - r.cash_before =
                    -Signed(r.side, r.fill_qty * r.price) - r.fee
              /\ \E k \in 1..Len(sim.fills) :
                    /\ log.fill_info[k].at = now
                    /\ sim.fills[k].oid = r.oid
                    /\ sim.fills[k].qty = r.fill_qty
                    /\ r.fee = MulDiv(r.fill_qty * r.price, log.fill_info[k].rate, 10000)
    /\ Cardinality(FillPubs) = Cardinality(FillRecs)
    /\ \A j \in FillPubs :
          LET n == Cardinality({k \in FillPubs : k <= j})
              fills == log.ev[j].fills
          IN  /\ Len(fills) = FillsAtStart + n
              /\ fills[Len(fills)].oid = log.ev[j].data.order_id
              /\ fills[Len(fills)].qty = log.ev[j].data.fill_qty
              /\ fills[Len(fills)].fee = log.ev[j].data.fee
    /\ Len(sim.fills) = FillsAtStart + Cardinality(FillPubs)
    /\ sim.position = PositionFrom(1)
    /\ sim.cash = INITIAL_CASH + CashFrom(1)

\* a buy fill and a sell fill of different quantities have been accounted
C27_Witness ==
    /\ \E i \in FillRecs : log.ev[i].fee > 0
    /\ \E a, b \in 1..Len(sim.fills) :
          /\ sim.fills[a].side = "buy" /\ sim.fills[b].side = "sell"
          /\ sim.fills[a].qty # sim.fills[b].qty


\* ---------------------------------------------------------------------------
\* The fee tier across a fill (execution_simulator.py:87-98, 306-313).  The tier
\* thresholds start at 10,000 dollars, beyond what the state machine's money
\* unit can count, so the ledger of _execute_fill is applied here to ledgers
\* kept in whole dollars: two earlier volume entries, `old` on day 0 and
\* `recent` on day RecentDay, and a fill of `notional` dollars (quantity
\* `notional` at a price of 1 dollar, 1 money unit to the dollar).
\* ---------------------------------------------------------------------------

RecentDay == 20
LateDay == 31

LedgerOlds == {0, 9999, 50000}
LedgerRecents == {0, 1, 9998, 9999, 10000, 40000, 49999, 99999, 399999999}
LedgerNotionals == {1, 2, 50000, 900000}
LedgerDays == {RecentDay, LateDay}

\* the simulator's ledger after the fill of `recent` dollars on day RecentDay
LedgerBefore(old, recent) ==
    TierOf([position |-> 0, cash |-> 1000,
            volume_history |->
                <<[timestamp |-> T(0, 0), volume_usd |-> old],
                  [timestamp |-> T(RecentDay, 0), volume_usd |-> recent]>>,
            total_volume_30d |-> old + recent,
            current_maker_fee |-> INITIAL_MAKER_FEE],
           1)

LedgerRec(before, side, notional, t) ==
    [kind |-> "ledger", side |-> side, notional |-> notional, at |-> t,
     before |-> before,
     after |-> FillLedger(before, side, 1, notional, t, 1)]

Ledger(old, recent, side, notional, day) ==
    /\ log' = [log EXCEPT !.ev =
                 <<LedgerRec(LedgerBefore(old, recent), side, notional, T(day, 0))>>]
    /\ UNCHANGED <<sim, qe, rm, now>>

NextW ==
    \E old \in LedgerOlds : \E recent \in LedgerRecents : \E side \in SIDES :
    \E notional \in LedgerNotionals : \E day \in LedgerDays :
        Ledger(old, recent, side, notional, day)

SpecW == Init /\ [][NextW]_vars

LedgerRecs == Recs("ledger")

\* The volume entries of a ledger that are not older than the window at t.
RECURSIVE RollingTotal(_, _, _)
RollingTotal(history, i, t) ==
    IF i > Len(history) THEN 0
    ELSE (IF Before(history[i].timestamp, AddD(t, -VOLUME_WINDOW_DAYS)) THEN 0
          ELSE history[i].volume_usd) + RollingTotal(history, i + 1, t)

\* The rate of the tier with the largest threshold not exceeding `dollars`.
IsTierRateFor(rate, dollars) ==
    \E i \in 1..Len(fee_tiers) :
        /\ fee_tiers[i][1] <= dollars
        /\ \A j \in 1..Len(fee_tiers) :
              fee_tiers[j][1] <= dollars => fee_tiers[j][1] <= fee_tiers[i][1]
        /\ \A j \in 1..Len(fee_tiers) :
              fee_tiers[j][1] = fee_tiers[i][1] => j <= i
        /\ rate = fee_tiers[i][2]

\* C28: after a fill the active maker-fee rate is the rate of the tier with the
\* largest threshold not exceeding the rolling 30-day total, and the fee
\* charged on the fill was computed with the rate active before the fill.
C28_TierFollowsRollingTotalFeeUsesOldRate ==
    \A i \in LedgerRecs :
        LET r == log.ev[i]
        IN  /\ r.after.total_volume_30d =
                   RollingTotal(r.after.volume_history, 1, r.at)
            /\ r.after.total_volume_30d =
                   RollingTotal(r.before.volume_history, 1, r.at) + r.notional
            /\ IsTierRateFor(r.after.current_maker_fee,
                             r.after.total_volume_30d)
            /\ r.before.cash - r.after.cash =
                   (IF r.side = "buy" THEN r.notional ELSE -r.notional)
                   + MulDiv(r.notional, r.before.current_maker_fee, 10000)

\* a fill that moves the ledger into another tier and was charged a fee
C28_Witness ==
    \E i \in LedgerRecs :
        /\ log.ev[i].after.current_maker_fee < log.ev[i].before.current_maker_fee
        /\ MulDiv(log.ev[i].notional, log.ev[i].before.current_maker_fee, 10000)
              # MulDiv(log.ev[i].notional, log.ev[i].after.current_maker_fee, 10000)
        /\ log.ev[i].at = T(LateDay, 0)
        /\ Len(log.ev[i].after.volume_history) = 2


\* ---------------------------------------------------------------------------
\* The risk manager on its own (risk_manager.py:47-93, 191-200): pre-trade
\* checks, position and PnL updates and order attempts arrive in any order,
\* inside and after the start-up grace period.
\* ---------------------------------------------------------------------------

MaxTicksB == 1
MaxAttemptsB == 2

TickScheduleB == << <<0, GRACE_MINUTES * 60 * SEC>> >>

RiskSizes == {10 * LOT, MAX_POSITION_SIZE + LOT}
RiskPositions == {0, MAX_POSITION_SIZE}
\* equity unchanged, down 1.5 % (daily PnL gate in the grace period), down 3 %
\* (drawdown gate in the grace period too) and down 6 %
RiskEquities ==
    {INITIAL_CASH, INITIAL_CASH - 15 * USD, INITIAL_CASH - 30 * USD,
     INITIAL_CASH - 60 * USD}
RiskLatencies == {PLACEMENT_LATENCY_MAX_US, MAX_LATENCY_MS * 1000 + 1}

RiskRec(r, result) ==
    [kind |-> "risk", breaches_before |-> r.risk_breaches,
     can_trade |-> result.can_trade, checks |-> result.checks]

CheckPreTradeRisk(side, size, price, current_position, current_equity, latency_us) ==
    /\ rm' = check_pre_trade_risk(rm, side, size, price, current_position,
                                  current_equity, latency_us, now).rm
    /\ log' = [log EXCEPT !.ev =
                 <<RiskRec(rm, check_pre_trade_risk(rm, side, size, price,
                                                    current_position, current_equity,
                                                    latency_us, now))>>]
    /\ UNCHANGED <<sim, qe, now>>

UpdatePositionAndPnl(new_position, new_equity) ==
    /\ rm' = update_position_and_pnl(rm, new_position, new_equity)
    /\ log' = [log EXCEPT !.ev = <<[kind |-> "pnl"]>>]
    /\ UNCHANGED <<sim, qe, now>>

RecordOrderAttempt ==
    /\ Len(rm.order_timestamps) < MaxAttemptsB
    /\ rm' = record_order_attempt(rm, now)
    /\ log' = [log EXCEPT !.ev = <<[kind |-> "attempt"]>>]
    /\ UNCHANGED <<sim, qe, now>>

NextB ==
    \/ Tick(TickScheduleB, MaxTicksB)
    \/ \E side \in SIDES : \E size \in RiskSizes : \E position \in RiskPositions :
       \E equity \in RiskEquities : \E latency_us \in RiskLatencies :
          CheckPreTradeRisk(side, size, BaseBid, position, equity, latency_us)
    \/ \E position \in RiskPositions : \E equity \in RiskEquities :
          UpdatePositionAndPnl(position, equity)
    \/ RecordOrderAttempt

SpecB == Init /\ [][NextB]_vars

RiskRecs == Recs("risk")

GATES ==
    {"position_limit", "daily_pnl_limit", "drawdown_limit", "concentration_risk",
     "var_limit", "order_rate_limit", "latency_limit", "no_critical_breaches"}

FailedCritical(checks) ==
    {c \in {"position_limit", "daily_pnl_limit", "drawdown_limit"} : ~checks[c]}

PreTradeStep == \E j \in 1..Len(log.ev') : log.ev'[j].kind = "risk"

\* C29: a pre-trade check permits the order iff all eight gates of the returned
\* map pass; after the call the persistent breach set is exactly the set of the
\* three critical gates that failed in it, and no other operation changes it.
C29_PermitIffAllGatesBreachesAreFailedCritical ==
    /\ [](\A i \in RiskRecs :
            /\ DOMAIN log.ev[i].checks = GATES
            /\ log.ev[i].can_trade <=> \A g \in GATES : log.ev[i].checks[g]
            /\ rm.risk_breaches = FailedCritical(log.ev[i].checks))
    /\ [][~PreTradeStep => rm.risk_breaches' = rm.risk_breaches]_vars

\* a check made while two gates were in breach, in which one of them passes
\* again and the other fails again, and which is refused
C29_Witness ==
    \E i \in RiskRecs :
        /\ Cardinality(log.ev[i].breaches_before) = 2
        /\ Cardinality(rm.risk_breaches) = 1
        /\ rm.risk_breaches \subseteq log.ev[i].breaches_before
        /\ ~log.ev[i].can_trade


\* ---------------------------------------------------------------------------
\* Replacement of a resting order by place_order (quote_engine.py:385-413,
\* 514-543).  The clock reaches 1, 3, 11 and 31 seconds, so orders of all three
\* age classes meet targets 5, 7, 10, 12 and 15 ticks away.
\* ---------------------------------------------------------------------------

MaxTicksY == 4
MaxPlaceY == 3

TickScheduleY ==
    << <<0, SEC>>, <<0, REPLACE_INTERVAL_SEC * SEC>>, <<0, 8 * SEC>>, <<0, 20 * SEC>> >>

PlaceInputsY ==
    {<<"buy", BaseBid, 10 * LOT>>, <<"buy", BaseBid - 5 * TICK, 10 * LOT>>,
     <<"buy", BaseBid - 12 * TICK, 10 * LOT>>, <<"buy", BaseBid - 15 * TICK, 10 * LOT>>}

\* The last place_order call cancelled the open order to replace it.
CancelledToReplace(r) ==
    IsSome(r.old) /\ r.how \in {"new", "no_queue", "cross", "whale"}

NoteReplace(w, t) ==
    LET r == w.log.ev[Len(w.log.ev)]
    IN  IF r.kind = "place" /\ CancelledToReplace(r)
        THEN [w EXCEPT !.log.replaced =
                 Append(@, [side |-> r.side, at |-> t, submitted |-> r.ok])]
        ELSE w

PlaceOrderY(side, price, size, cancel_delay) ==
    /\ log.n_place < MaxPlaceY
    /\ \A o \in log.orig : o.oid # <<side, price, now>>
    /\ \E engine_queue \in (IF BookOk(qe.last_orderbook)
                            THEN _calculate_queue_position(side, price,
                                                           Val(qe.last_orderbook))
                            ELSE {None}) :
       \E sim_queue \in _queue_ahead(sim, side, price) :
          Apply(NotePlace(NoteReplace(
                    place_order(World, side, price, size, qe.last_orderbook,
                                engine_queue, sim_queue, cancel_delay, now), now),
                now))
    /\ UNCHANGED now

NextY ==
    \/ Tick(TickScheduleY, MaxTicksY)
    \/ \E book \in Books : BookUpdate(book, <<CancelDelayFor("buy"), CancelDelayFor("sell")>>)
    \/ \E p \in PlaceInputsY : PlaceOrderY(p[1], p[2], p[3], CancelDelayFor(p[1]))

SpecY == Init /\ [][NextY]_vars

Replacements == {i \in 1..Len(log.replaced) : log.replaced[i].submitted}

\* C30: two replacements on one side (the open order cancelled and a fresh one
\* submitted) are at least REPLACE_INTERVAL_SEC apart, and an order is replaced
\* only for a target at least 15 ticks from its price when it is younger than
\* 10 s, at least 10 ticks when younger than 30 s, at least 5 ticks otherwise.
C30_ReplacementsSpacedAndSubstantial ==
    /\ \A i, j \in Replacements :
          (i < j /\ log.replaced[i].side = log.replaced[j].side) =>
              Diff(log.replaced[j].at, log.replaced[i].at) >= REPLACE_INTERVAL_SEC * SEC
    /\ \A i \in PlaceRecs :
          LET r == log.ev[i]
          IN  CancelledToReplace(r) =>
                 LET ticks == Abs(r.price - Val(r.old).price)
                     age   == Diff(now, Val(r.old).entry_time)
                 IN  /\ age < 10 * SEC => ticks >= 15 * TICK
                     /\ (age >= 10 * SEC /\ age < 30 * SEC) => ticks >= 10 * TICK
                     /\ age >= 30 * SEC => ticks >= 5 * TICK

\* two replacements on the buy side, the second of an order between 10 and 30
\* seconds old for a target less than 15 ticks away
C30_Witness ==
    /\ Cardinality(Replacements) >= 2
    /\ \E i \in PlaceRecs :
          /\ CancelledToReplace(log.ev[i]) /\ log.ev[i].ok
          /\ Diff(now, Val(log.ev[i].old).entry_time) >= 10 * SEC
          /\ Abs(log.ev[i].price - Val(log.ev[i].old).price) < 15 * TICK


\* ---------------------------------------------------------------------------
\* What a published fill does in the quoting engine (quote_engine.py:1284-1335).
\* ---------------------------------------------------------------------------

LastFillPub == CHOOSE j \in FillPubs : \A k \in FillPubs : k <= j

\* the equity update_position_and_pnl is given for a fill at price p
EquityAt(p) == sim.cash + sim.position * p

\* C31: every published fill makes the engine update the risk manager with the
\* simulator's position and mark-to-market equity and count one more trade in
\* the session total (the wins counter never exceeding the total).
C31_FillUpdatesRiskAndSessionCounters ==
    /\ qe.trades_total = Len(sim.fills)
    /\ qe.trades_won <= qe.trades_total
    /\ FillPubs # {} =>
          \/ rm.daily_pnl = EquityAt(log.ev[LastFillPub].data.price) - rm.peak_equity
          \/ rm.peak_equity = EquityAt(log.ev[LastFillPub].data.price)


(***************************************************************************)
(* The simulator's position against max_position                           *)
(***************************************************************************)
\* C32: after any sequence of operations the simulator's position lies
\* within [-max_position, +max_position]
C32_PositionWithinMaxPosition == Abs(sim.position) <= MAX_POSITION_SIZE


(***************************************************************************)
(* Orders per side in the simulator's live-order table                     *)
(***************************************************************************)
LiveOn(side) == {i \in DOMAIN sim.live_orders : sim.live_orders[i].side = side}

\* C33: the live-order table never holds more than one order per side,
\* however placements, replacements, delayed cancels, trades and book updates
\* interleave
C33_AtMostOneLiveOrderPerSide == \A side \in SIDES : Cardinality(LiveOn(side)) <= 1


(***************************************************************************)
(* place_order returning False                                             *)
(***************************************************************************)
\* the call left the side's mirror order, the live-order table and the
\* pending cancel events as they were
LeftUntouched(r) ==
    /\ qe.open[r.side] = r.old
    /\ sim.live_orders = r.before.live
    /\ CancelEvents(sim.event_queue) = r.cancels_before

\* C34: a place_order call that returns False leaves that side's mirror
\* order, the live-order table and the set of pending cancel events unchanged
C34_RejectedPlaceOrderChangesNothing ==
    \A i \in PlaceRecs : ~log.ev[i].ok => LeftUntouched(log.ev[i])


(***************************************************************************)
(* The mirror order and the live order of the same id                      *)
(***************************************************************************)
\* C35: whenever the mirror and the live-order table hold an order with the
\* same id their prices are equal, so that after an amend the simulator
\* matches trades against the amended price
C35_MirrorAndLiveOrderAgreeOnPrice ==
    \A side \in SIDES : \A i \in DOMAIN sim.live_orders :
        (IsSome(qe.open[side]) /\ sim.live_orders[i].id = Val(qe.open[side]).order_id)
            => sim.live_orders[i].price = Val(qe.open[side]).price


(***************************************************************************)
(* place_order at the price of the resting order                           *)
(***************************************************************************)
\* the share of the queue estimate an amend keeps, in percent
QueueRetention(price_diff) ==
    IF price_diff <= 1 * TICK THEN 80
    ELSE IF price_diff <= 3 * TICK THEN 50
    ELSE 20

\* order.current_queue after _amend_order, in the unit of the queue estimate
AmendedQueue(current_queue, price_diff) ==
    Max(LOT, (current_queue * QueueRetention(price_diff)) \div 100)

\* the call asked for the price the side's mirror order already had
SamePriceCall(r) == IsSome(r.old) /\ Val(r.old).price = r.price

\* the queue estimates a freshly placed order of that call's side and price
\* can carry
FreshEstimates(r) ==
    {Val(q) : q \in {e \in _calculate_queue_position(r.side, r.price,
                                                     Val(qe.last_orderbook)) :
                        IsSome(e)}}

\* C36: a place_order call at the price of the existing same-side order is a
\* no-op on that order: it leaves the queue-ahead estimate as it was and is
\* not counted as an order sent, however often it is repeated
C36_SamePricePlaceOrderIsNoOp ==
    \A i \in PlaceRecs :
        SamePriceCall(log.ev[i]) =>
            /\ qe.orders_sent = log.ev[i].orders_sent
            /\ qe.open[log.ev[i].side] = log.ev[i].old
            /\ log.ev[i].how = "amend" =>
                  \A q \in FreshEstimates(log.ev[i]) : AmendedQueue(q, 0) = q


(***************************************************************************)
(* The no_critical_breaches gate                                           *)
(***************************************************************************)
\* C37: the no_critical_breaches gate fails in a pre-trade call only if one of
\* position_limit, daily_pnl_limit and drawdown_limit fails in that same
\* call: a call in which the three pass is never refused on account of
\* breaches, whatever the previous calls were
C37_BreachGateFailsOnlyWithFailedCriticalGate ==
    \A i \in RiskRecs :
        ~log.ev[i].checks["no_critical_breaches"] =>
            FailedCritical(log.ev[i].checks) # {}


(***************************************************************************)
(* One trade print against several live orders                             *)
(***************************************************************************)
MaxTicksM == 3
MaxPlaceM == 2
MaxTradesM == 1

PlaceInputsM == {<<"buy", BaseBid, 10 * LOT>>}
TradeInputsM == {<<BaseBid, 15 * LOT, "sell">>, <<BaseBid, 5 * LOT, "sell">>}

NextM ==
    \/ Tick(TickScheduleT, MaxTicksM)
    \/ \E book \in Books : BookUpdate(book, <<CancelDelayFor("buy"), CancelDelayFor("sell")>>)
    \/ \E p \in PlaceInputsM : PlaceOrder(MaxPlaceM, p[1], p[2], p[3], CancelDelayFor(p[1]))
    \/ \E side \in SIDES : CancelOrder(side, TRUE, CancelDelayFor(side))
    \/ \E tr \in TradeInputsM : \E pd \in TradeDelaysT :
          OnTrade(MaxTradesM, tr[1], tr[2], tr[3], 0, pd)

SpecM == Init /\ [][NextM]_vars

\* what the trade event executed at exec_at filled, over the records from i on
RECURSIVE FilledByPrint(_, _)
FilledByPrint(exec_at, i) ==
    IF i > Len(log.ev) THEN 0
    ELSE (IF log.ev[i].kind = "trade" /\ log.ev[i].exec_at = exec_at
          THEN log.ev[i].fill_qty ELSE 0) + FilledByPrint(exec_at, i + 1)

\* C38: for a single trade print the quantity filled over all live orders
\* together does not exceed the size of the trade
C38_FillsOfOnePrintWithinTradeSize ==
    \A i \in TradeRecs :
        FilledByPrint(log.ev[i].exec_at, 1) <= log.ev[i].trade_qty


(***************************************************************************)
(* The position the risk check and the inventory skew are given            *)
(***************************************************************************)
\* get_risk_adjusted_skew: the inventory handed to get_inventory_skew
current_inventory(w) == w.qe.position

\* the call got as far as the pre-trade risk check
RiskChecked(r) == r.how \notin {"no_book", "min_value", "min_size"}

\* C39: the current position place_order passes to the pre-trade risk check,
\* and the inventory passed to the inventory-skew helper, equal the
\* simulator's position at that moment, after any sequence of fills
C39_RiskCheckAndSkewSeeSimulatorPosition ==
    /\ \A i \in PlaceRecs :
          RiskChecked(log.ev[i]) =>
              log.ev[i].current_position = log.ev[i].before.position
    /\ current_inventory(World) = get_position(World)


(***************************************************************************)
(* The mirror order of an accepted place_order call against the book       *)
(***************************************************************************)
MaxTicksC == 2
MaxPlaceC == 3

\* bids at the best bid and at the best ask, asks at the best ask and at the
\* best bid: the second of each pair is within the amend distance of the first
PlaceInputsC ==
    {<<"buy", BaseBid, 10 * LOT>>, <<"buy", BaseAsk, 10 * LOT>>,
     <<"sell", BaseAsk, 10 * LOT>>, <<"sell", BaseBid, 10 * LOT>>}

NextC ==
    \/ Tick(TickScheduleR, MaxTicksC)
    \/ \E book \in Books : BookUpdate(book, <<CancelDelayFor("buy"), CancelDelayFor("sell")>>)
    \/ \E p \in PlaceInputsC : PlaceOrder(MaxPlaceC, p[1], p[2], p[3], CancelDelayFor(p[1]))

SpecC == Init /\ [][NextC]_vars

\* C40: after a place_order call that returns True, whether it submitted a
\* new order or amended the resting one, a mirrored bid is priced strictly
\* below the best ask and a mirrored ask strictly above the best bid of the
\* book passed to the call
C40_AcceptedOrderDoesNotCrossTheBook ==
    \A i \in PlaceRecs :
        log.ev[i].ok =>
            /\ IsSome(qe.open[log.ev[i].side])
            /\ log.ev[i].side = "buy" =>
                  Val(qe.open["buy"]).price < BestAsk(Val(qe.last_orderbook))
            /\ log.ev[i].side = "sell" =>
                  Val(qe.open["sell"]).price > BestBid(Val(qe.last_orderbook))

====
